---- MODULE Spec2Model ----
(***************************************************************************)
(* USM (Universal State Machine) core engine.                              *)
(*                                                                         *)
(* The engine is synchronous and single threaded, but every callback it    *)
(* invokes (state enter/exit/tick, rule guard/action/resolver, adapter     *)
(* hooks, config onTransition) is user code that observes the machine and  *)
(* may call back into it.  The model therefore runs the engine's methods   *)
(* on an explicit call stack: one frame per method invocation, one action  *)
(* per block of straight-line code between two callback invocations.       *)
(***************************************************************************)
EXTENDS Integers, Sequences, FiniteSets, TLC

\* ------------------------------------------------------------------ bounds
MaxToken == 4
MaxScore == 1
MaxNest  == 2
MaxStep  == 2
MaxCatchUp == 2
MaxRaw   == 4
MaxItems == 4
MaxConcurrency == 3
MaxIds   == 4
MaxGotos == 3

\* ------------------------------------------------- the configured machine
\* new USM({ initial:'menu', states:{menu, play, over}, context:{score:0},
\*           adapters:[A, B, C], onTransition })
NULL == "null"
StateNames == {"menu", "play", "over"}
initial == "menu"
Adapters == <<"A", "B", "C">>
HookKinds == {"onStart", "onStop", "onEnter", "onExit", "onTransition", "onTick"}
\* Adapter B leaves onStart, onExit and onTick undefined.
HasHook(a, h) == ~(a = "B" /\ h \in {"onStart", "onExit", "onTick"})

\* States' own callbacks: `over` is a bare node without callbacks.
HasEnter(s) == s \in {"menu", "play"}
HasExit(s)  == s \in {"menu", "play"}
HasTick(s)  == s = "play"
HasCfgOnTransition == TRUE

\* A rule of an `on` table.  kind: "str" a bare target string, "obj" a
\* {target, guard?, action?} record, "fnobj"/"fnstr"/"fnundef" a resolver
\* function returning a record, a bare string, or undefined.
Rule(kind, target, guard, action) ==
    [kind |-> kind, target |-> target, guard |-> guard, action |-> action]
NoRule == Rule("none", NULL, FALSE, "none")

OnTable ==
    [menu |-> [START |-> Rule("str", "play", FALSE, "none"),
               SELF  |-> Rule("str", "menu", FALSE, "none"),
               BAD   |-> Rule("str", "nowhere", FALSE, "none"),
               OPEN  |-> Rule("fnobj", "over", FALSE, "none")],
     play |-> [STOP  |-> Rule("str", "menu", FALSE, "none"),
               WIN   |-> Rule("obj", "over", TRUE, "reset"),
               HIT   |-> Rule("obj", "play", FALSE, "inc"),
               SKIP  |-> Rule("fnstr", "over", FALSE, "none")],
     over |-> [AGAIN |-> Rule("fnobj", "menu", TRUE, "none"),
               STAY  |-> Rule("fnobj", "over", FALSE, "inc"),
               VOID  |-> Rule("fnundef", NULL, FALSE, "none")]]

EventTypes == {"START", "SELF", "BAD", "OPEN", "STOP", "WIN", "HIT", "SKIP",
               "AGAIN", "STAY", "VOID", "UNKNOWN"}
GoTargets == StateNames \cup {"nowhere"}


\* ------------------------------------------------------------------ state
VARIABLES
    _state,     \* USM._state: current state name, NULL before any entry
    _run,       \* USM._run
    _token,     \* USM._token
    context,    \* USM.context
    stack,      \* call stack of the engine's methods and the callbacks
    retT,       \* value returned by the last resolver / rule normalisation
    retB,       \* value returned by the last guard
    log,        \* callbacks invoked by the API call in progress, in order
    call,       \* the API call in progress (or the last one) and its pre-state
    threw,      \* the last API call ended by an exception
    script,     \* the scripted callback (fixed at construction)
    build,      \* the constructor: the initial given, its position, factories run
    twin,       \* what the same call did on a machine in the same state
    timers,     \* time adapter: the pending timers of ctx.time.after / every
    host,       \* the page: senders bound by the ui adapter, the last timer fired
    fires,      \* times the script ran during the API call in progress
    captured,   \* token captured by a deferred continuation (0: none pending)
    entries,    \* state entries performed since the capture
    lastCheck,  \* what the last deferred continuation saw
    loop,       \* time adapter: the frame loop (fixedStep, acc, steps, ...)
    pool,       \* loader adapter: the pool of one ctx.loader.load(manifest)
    entered,    \* the state entered and not exited since (NULL: none)
    nav         \* ui pages / scenes adapter: pages shown, current, goto calls

vars == <<_state, _run, _token, context, stack, retT, retB, log, call, threw,
          script, build, twin, timers, host, fires, captured, entries, lastCheck,
          loop, pool, entered, nav>>

machine == <<_state, _run, _token, context>>
regs    == <<retT, retB>>
defer   == <<captured, entries, lastCheck>>
plant   == <<loop, pool, nav>>
world   == <<timers, host, plant>>
engine  == <<machine, stack, regs, log, call, threw, script, build, twin, fires, defer, entered>>

\* ----------------------------------------------------------------- frames
Frame(fn, pc, evt, arg) ==
    [fn |-> fn, pc |-> pc, evt |-> evt, arg |-> arg, hook |-> "-", who |-> "-",
     from |-> NULL, i |-> 0, rule |-> NoRule, tok |-> 0]

Top == stack[Len(stack)]
Rest == SubSeq(stack, 1, Len(stack) - 1)
At(fn, pc) == stack # <<>> /\ Top.fn = fn /\ Top.pc = pc

\* Number of callbacks currently executing (nesting of re-entrant calls).
NestDepth == Cardinality({k \in 1..Len(stack) : stack[k].fn = "cb"})

\* for (const a of this.adapters) (a as any)[hook]?.(arg)
CallFrame(hook, evt, arg, from, tok) ==
    [Frame("_call", "iter", evt, arg) EXCEPT
        !.hook = hook, !.i = 1, !.from = from, !.tok = tok]

\* Invocation of a user callback `hook` of `who` (a state, an adapter, the
\* config or a rule) with the arguments the engine passes.
CbFrame(hook, who, evt, arg, from, tok) ==
    [Frame("cb", "run", evt, arg) EXCEPT
        !.hook = hook, !.who = who, !.from = from, !.tok = tok]

\* What a callback is handed, and what it can observe when it starts.
Entry(f) ==
    [evt |-> f.evt, hook |-> f.hook, who |-> f.who, from |-> f.from,
     state |-> f.arg, token |-> f.tok,
     run |-> _run, cur |-> _state, live |-> _token, ctx |-> context]

\* The behaviour of the user's callbacks.  Guards, actions, resolvers and
\* the tick callback do what the configuration above says; every other
\* callback does nothing, except the one a script names, which throws,
\* defers a continuation or calls back into the machine (at most `max`
\* times per API call; MaxNest + 1 stands for "every time").
Script(hook, who, do, what, max) ==
    [hook |-> hook, who |-> who, do |-> do, what |-> what, max |-> max]
NoScript == Script("-", "-", "none", "-", 0)
Scripts ==
    { NoScript,
      Script("enter", "menu", "defer", "-", 1),
      Script("enter", "play", "go", "over", 1),
      Script("onEnter", "A", "send", "STOP", 1),
      Script("exit", "menu", "send", "OPEN", MaxNest + 1),
      Script("onStop", "A", "stop", "@STOP", 1),
      Script("exit", "play", "stop", "@STOP", 1),
      Script("onStart", "A", "throw", "-", 1),
      Script("enter", "play", "throw", "-", 1),
      Script("onEnter", "B", "throw", "-", 1),
      Script("exit", "play", "throw", "-", 1),
      Script("tick", "play", "throw", "-", 1),
      Script("guard", "WIN", "throw", "-", 1),
      Script("action", "HIT", "throw", "-", 1) }

\* Callbacks that create a timer: ctx.time.after(ms, 'STOP') in play's
\* enter and exit callbacks and in an onStop hook registered after the time
\* adapter's, ctx.time.every(ms, 'START') in menu's enter callback.
TimerScripts ==
    { NoScript,
      Script("enter", "play", "after", "STOP", 1),
      Script("enter", "menu", "every", "START", 1),
      Script("exit", "play", "after", "STOP", 1),
      Script("onStop", "B", "after", "STOP", 1) }

\* isCurrent(token) { return token === this._token; }
isCurrentUpTo(token) == token <= _token
isCurrent(token) == token = _token

\* new USM(config) is tried with the configuration above and with the same
\* configuration naming an initial state that `states` lacks.
Initials == {initial, "nowhere"}

\* The time adapter is registered first, the ui adapter last (each with the
\* hooks of a tracing adapter added, so that every hook of theirs is seen).
TimeAdapter == "A"
UiAdapter == "C"

\* ctx.time.after(ms, evt) / ctx.time.every(ms, evt): const token = usm.token
\* `run` and `moved` are not kept by the adapter: whether the machine was
\* started when the timer was created, and whether a state was entered since.
Timer(evt, every) ==
    [evt |-> evt, token |-> _token, run |-> _run, every |-> every, moved |-> FALSE]
NoTimer == [evt |-> "-", token |-> 0, run |-> FALSE, every |-> FALSE, moved |-> FALSE]
NoHost == [bound |-> FALSE, timer |-> NoTimer, sent |-> FALSE]

\* The frame loop of a time adapter made with fixedStep fs, maxCatchUpSteps
\* cap and maxDelta clamp (times in quanta; 0 also stands for fixedStep null,
\* which every use in frame() treats as 0). running, last, acc, delta are the
\* adapter's variables, steps is frame()'s local. Not kept by the adapter:
\* dts, the dt of each usm.tick of the last frame; was, the fixedStep that
\* frame started with; changed, setFixedStep was called during it; aborted, a
\* tick of it threw; cold, usm.tick was called while running was false.
\* pauseOnHidden and sleepFPS are options, hidden, rafId and sleepId (0 for
\* null) the adapter's variables; pending holds the handles of the frame
\* callbacks (requestAnimationFrame or timeout) the host has yet to run,
\* ids counts the handles given out (handles are 1, 2, 3, ...).
Loop(fs, cap, clamp) ==
    [pc |-> "idle", fixedStep |-> fs, maxCatchUpSteps |-> cap, maxDelta |-> clamp,
     running |-> FALSE, last |-> 0, acc |-> 0, delta |-> 0, steps |-> 0,
     dts |-> <<>>, was |-> 0, changed |-> FALSE, aborted |-> FALSE,
     pauseOnHidden |-> TRUE, sleepFPS |-> 0, hidden |-> FALSE,
     rafId |-> 0, sleepId |-> 0, pending |-> {}, ids |-> 0, cold |-> FALSE]
NoLoop == Loop(0, 0, 0)

\* The pool of ctx.loader.load(manifest) of a loader adapter made with
\* concurrency c: total, q, done are load()'s locals, workers the worker()
\* calls (each awaiting the load of an item, resumed after it, or ended).
\* Not kept by the adapter: started, the items handed to loadItem in order;
\* progress, the `done` argument of each onProgress call.
Pool(c) ==
    [pc |-> "idle", concurrency |-> c, total |-> 0, q |-> <<>>, workers |-> <<>>,
     done |-> 0, started |-> <<>>, progress |-> <<>>]
NoPool == Pool(0)

\* The ui pages (ui scenes) adapter: current is the adapter's variable,
\* shown the pages whose element has style.display = '' (the others have
\* 'none'), gotos the goto() calls made, each awaiting its transition
\* ("await"), with its transition over ("ended") or returned ("done").
\* Not kept by the adapter: latest, the page named by the most recent
\* goto; overlap, a goto was called while another awaited its transition.
NoNav ==
    [pc |-> "off", current |-> NULL, shown |-> {}, gotos |-> <<>>,
     latest |-> NULL, overlap |-> FALSE]

\* no second machine is compared
Alone ==
    [log |-> <<>>, threw |-> FALSE,
     outcome |-> [state |-> NULL, token |-> 0, run |-> FALSE, ctx |-> [score |-> 0]],
     phase |-> "off"]

Init ==
    /\ _state = NULL
    /\ _run = FALSE
    /\ _token = 0
    /\ context = [score |-> 0]
    /\ stack = <<>>
    /\ retT = NoRule
    /\ retB = FALSE
    /\ log = <<>>
    /\ call = [evt |-> "-", arg |-> "-", op |-> "none",
               pre |-> [state |-> NULL, token |-> 0, run |-> FALSE, ctx |-> [score |-> 0]]]
    /\ threw = FALSE
    /\ script \in Scripts
    /\ build \in {[initial |-> n, pc |-> "check", made |-> <<>>] : n \in Initials}
    /\ fires = 0
    /\ captured = 0
    /\ entries = 0
    /\ lastCheck = [token |-> 0, current |-> FALSE, after |-> 0]
    /\ twin = Alone
    /\ timers = {}
    /\ host = NoHost
    /\ loop = NoLoop
    /\ pool = NoPool
    /\ entered = NULL
    /\ nav = NoNav


\* ------------------------------------------------------ the constructor
\* !this.states[this.initial]
MissingInitial(name) == name \notin StateNames

\* the factories of config.adapters invoked so far, in invocation order
Invoked(made) == Append(made, Adapters[Len(made) + 1])

constructor_check_late ==
    /\ build.pc = "check"
    /\ build' = [build EXCEPT
                   !.pc = IF MissingInitial(build.initial) THEN "threw" ELSE "done",
                   !.made = Adapters]
    /\ UNCHANGED <<machine, stack, regs, log, call, threw, script, twin, world, fires, defer, entered>>

\* if (!this.states[this.initial]) throw new Error(...);
constructor_check ==
    /\ build.pc = "check"
    /\ build' = [build EXCEPT
                   !.pc = IF MissingInitial(build.initial) THEN "threw" ELSE "adapters"]
    /\ UNCHANGED <<machine, stack, regs, log, call, threw, script, twin, world, fires, defer, entered>>

\* this.adapters = (config.adapters || []).map(f => f(this));
constructor_adapters ==
    /\ build.pc = "adapters"
    /\ IF Len(build.made) < Len(Adapters)
       THEN build' = [build EXCEPT !.made = Invoked(@)]
       ELSE build' = [build EXCEPT !.pc = "done"]
    /\ UNCHANGED <<machine, stack, regs, log, call, threw, script, twin, world, fires, defer, entered>>

\* the constructor has returned the machine
Constructed == build.pc = "done"

\* ------------------------------------------------------- the public API
\* A call of the machine's API from outside (the application, a DOM
\* listener, a timer): only between two calls, the engine being synchronous.
Idle == stack = <<>>

Snapshot == [state |-> _state, token |-> _token, run |-> _run, ctx |-> context]

ApiCall(op, arg, evt, frame) ==
    /\ Constructed
    /\ Idle
    /\ _token < MaxToken
    /\ stack' = <<frame>>
    /\ log' = <<>>
    /\ threw' = FALSE
    /\ fires' = 0
    /\ retT' = NoRule
    /\ retB' = FALSE
    /\ call' = [evt |-> evt, arg |-> arg, op |-> op, pre |-> Snapshot]
    /\ UNCHANGED <<machine, script, build, twin, world, defer, entered>>

\* usm.start(evt = {type:'@START'})
CallStart == \E e \in {"@START", "BOOT"} :
    ApiCall("start", "-", e, Frame("start", "begin", e, "-"))

\* usm.stop(evt = {type:'@STOP'})
CallStop == \E e \in {"@STOP", "QUIT"} :
    ApiCall("stop", "-", e, Frame("stop", "begin", e, "-"))

\* usm.send(type)
CallSend == \E e \in EventTypes :
    ApiCall("send", e, e, Frame("send", "begin", e, "-"))

\* usm.go(target, evt = {type:'@GO'})
CallGo == \E t \in GoTargets :
    ApiCall("go", t, "@GO", Frame("go", "begin", "@GO", t))

\* usm.tick(dt)
CallTick == ApiCall("tick", "-", "-", Frame("tick", "begin", "-", "-"))

\* ------------------------------------------------------- engine: start
start_begin_unflagged ==
    /\ At("start", "begin")
    /\ IF _run
       THEN stack' = Rest
       ELSE stack' = Rest \o <<[Top EXCEPT !.pc = "enter"],
                               CallFrame("onStart", Top.evt, "-", NULL, 0)>>
    /\ UNCHANGED <<machine, regs, log, call, threw, script, build, twin, world, fires, defer, entered>>

start_begin_unguarded ==
    /\ At("start", "begin")
    /\ _run' = TRUE
    /\ stack' = Rest \o <<[Top EXCEPT !.pc = "enter"],
                          CallFrame("onStart", Top.evt, "-", NULL, 0)>>
    /\ UNCHANGED <<_state, _token, context, regs, log, call, threw, script, build, twin, world, fires, defer, entered>>

\* if (this._run) return; this._run = true; this._call('onStart', evt);
start_begin ==
    /\ At("start", "begin")
    /\ IF _run
       THEN /\ stack' = Rest
            /\ UNCHANGED _run
       ELSE /\ _run' = TRUE
            /\ stack' = Rest \o <<[Top EXCEPT !.pc = "enter"],
                                  CallFrame("onStart", Top.evt, "-", NULL, 0)>>
    /\ UNCHANGED <<_state, _token, context, regs, log, call, threw, script, build, twin, world, fires, defer, entered>>

start_enter_resumed ==
    /\ At("start", "enter")
    /\ stack' = Rest \o <<Frame("_enter", "begin", Top.evt,
                                IF _state = NULL THEN initial ELSE _state)>>
    /\ UNCHANGED <<machine, regs, log, call, threw, script, build, twin, world, fires, defer, entered>>

\* this._enter(this.initial, evt);
start_enter ==
    /\ At("start", "enter")
    /\ stack' = Rest \o <<Frame("_enter", "begin", Top.evt, initial)>>
    /\ UNCHANGED <<machine, regs, log, call, threw, script, build, twin, world, fires, defer, entered>>

\* -------------------------------------------------------- engine: stop
\* if (!this._run) return; this._call('onStop', evt);
stop_begin ==
    /\ At("stop", "begin")
    /\ IF ~_run
       THEN stack' = Rest
       ELSE stack' = Rest \o <<[Top EXCEPT !.pc = "exit"],
                               CallFrame("onStop", Top.evt, "-", NULL, 0)>>
    /\ UNCHANGED <<machine, regs, log, call, threw, script, build, twin, world, fires, defer, entered>>

\* this._exit(this._state, evt);
stop_exit ==
    /\ At("stop", "exit")
    /\ stack' = Rest \o <<[Top EXCEPT !.pc = "flag"],
                          Frame("_exit", "begin", Top.evt, _state)>>
    /\ UNCHANGED <<machine, regs, log, call, threw, script, build, twin, world, fires, defer, entered>>

stop_flag_clear ==
    /\ At("stop", "flag")
    /\ _run' = FALSE
    /\ _state' = NULL
    /\ stack' = Rest
    /\ UNCHANGED <<_token, context, regs, log, call, threw, script, build, twin, world, fires, defer, entered>>

\* this._run = false;
stop_flag ==
    /\ At("stop", "flag")
    /\ _run' = FALSE
    /\ stack' = Rest
    /\ UNCHANGED <<_state, _token, context, regs, log, call, threw, script, build, twin, world, fires, defer, entered>>


\* -------------------------------------------------------- engine: send
\* const def = this.states[this._state]; const rule = def?.on?.[evt.type];
HasRule(s, e) == s \in StateNames /\ e \in DOMAIN OnTable[s]
RuleOfInitial(s, e) == IF HasRule(initial, e) THEN OnTable[initial][e] ELSE NoRule
RuleOf(s, e) == IF HasRule(s, e) THEN OnTable[s][e] ELSE NoRule

\* if (!rule) return;
Absent(rule) == rule.kind = "none"

\* obj.guard && !obj.guard(ctx, evt, api)
GuardVetoesNever(passed) == FALSE
GuardVetoes(passed) == ~passed

\* typeof rule === 'string' ? { target: rule } : rule
Normalise(rule) ==
    IF rule.kind = "str" THEN Rule("obj", rule.target, FALSE, "none") ELSE rule

\* What the resolver function of a rule returns.
ResolverResult(rule) ==
    CASE rule.kind = "fnobj" -> Rule("obj", rule.target, rule.guard, rule.action)
      [] rule.kind = "fnstr" -> Rule("str", rule.target, FALSE, "none")
      [] OTHER -> Rule("undef", NULL, FALSE, "none")

\* !(!resolved || typeof resolved.target !== 'string')
HasStringTarget(resolved) == resolved.kind = "obj"

TransitionThenAct(f, obj) ==
    IF obj.action # "none"
    THEN <<[CbFrame("action", f.evt, f.evt, obj.target, NULL, _token) EXCEPT !.rule = obj],
           Frame("_transition", "begin", f.evt, obj.target)>>
    ELSE <<Frame("_transition", "begin", f.evt, obj.target)>>

\* obj.action?.(ctx, evt, api); this._transition(obj.target, evt);
ActThenTransition(f, obj) ==
    IF obj.action # "none"
    THEN <<[f EXCEPT !.pc = "transition", !.rule = obj],
           [CbFrame("action", f.evt, f.evt, obj.target, NULL, _token) EXCEPT !.rule = obj]>>
    ELSE <<Frame("_transition", "begin", f.evt, obj.target)>>

send_begin ==
    /\ At("send", "begin")
    /\ LET rule == RuleOf(_state, Top.evt) IN
       IF Absent(rule)
       THEN /\ stack' = Rest
            /\ UNCHANGED retT
       ELSE IF rule.kind \in {"fnobj", "fnstr", "fnundef"}
            THEN /\ stack' = Rest \o
                      <<[Top EXCEPT !.pc = "resolved"],
                        [CbFrame("resolver", Top.evt, Top.evt, "-", NULL, _token)
                            EXCEPT !.rule = rule]>>
                 /\ UNCHANGED retT
            ELSE /\ stack' = Rest \o <<[Top EXCEPT !.pc = "resolved"]>>
                 /\ retT' = Normalise(rule)
    /\ UNCHANGED <<machine, retB, log, call, threw, script, build, twin, world, fires, defer, entered>>

\* if (!resolved || typeof resolved.target !== 'string') return;
\* if (obj.guard && !obj.guard(ctx, evt, api)) return;
send_resolved ==
    /\ At("send", "resolved")
    /\ IF ~HasStringTarget(retT)
       THEN stack' = Rest
       ELSE IF retT.guard
            THEN stack' = Rest \o
                   <<[Top EXCEPT !.pc = "guarded", !.rule = retT],
                     [CbFrame("guard", Top.evt, Top.evt, retT.target, NULL, _token)
                         EXCEPT !.rule = retT]>>
            ELSE stack' = Rest \o ActThenTransition(Top, retT)
    /\ UNCHANGED <<machine, regs, log, call, threw, script, build, twin, world, fires, defer, entered>>

send_guarded ==
    /\ At("send", "guarded")
    /\ IF GuardVetoes(retB)
       THEN stack' = Rest
       ELSE stack' = Rest \o ActThenTransition(Top, Top.rule)
    /\ UNCHANGED <<machine, regs, log, call, threw, script, build, twin, world, fires, defer, entered>>

send_transition ==
    /\ At("send", "transition")
    /\ stack' = Rest \o <<Frame("_transition", "begin", Top.evt, Top.rule.target)>>
    /\ UNCHANGED <<machine, regs, log, call, threw, script, build, twin, world, fires, defer, entered>>

\* -------------------------------------------------------- engine: tick
tick_begin_hooks_first ==
    /\ At("tick", "begin")
    /\ IF _state \in StateNames /\ HasTick(_state)
       THEN stack' = Rest \o <<CbFrame("tick", _state, "-", "-", NULL, _token),
                               CallFrame("onTick", "-", "-", NULL, 0)>>
       ELSE stack' = Rest \o <<CallFrame("onTick", "-", "-", NULL, 0)>>
    /\ UNCHANGED <<machine, regs, log, call, threw, script, build, twin, world, fires, defer, entered>>

\* this.states[this._state]?.tick?.(dt, ctx, api); this._call('onTick', {dt});
tick_begin ==
    /\ At("tick", "begin")
    /\ IF _state \in StateNames /\ HasTick(_state)
       THEN stack' = Rest \o <<[Top EXCEPT !.pc = "hooks"],
                               CbFrame("tick", _state, "-", "-", NULL, _token)>>
       ELSE stack' = Rest \o <<CallFrame("onTick", "-", "-", NULL, 0)>>
    /\ UNCHANGED <<machine, regs, log, call, threw, script, build, twin, world, fires, defer, entered>>

tick_hooks ==
    /\ At("tick", "hooks")
    /\ stack' = Rest \o <<CallFrame("onTick", "-", "-", NULL, 0)>>
    /\ UNCHANGED <<machine, regs, log, call, threw, script, build, twin, world, fires, defer, entered>>

\* ---------------------------------------------------------- engine: go
go_begin_routed ==
    /\ At("go", "begin")
    /\ IF \E e \in EventTypes : HasRule(_state, e) /\ OnTable[_state][e].target = Top.arg
       THEN stack' = Rest \o <<Frame("_transition", "begin", Top.evt, Top.arg)>>
       ELSE stack' = Rest
    /\ UNCHANGED <<machine, regs, log, call, threw, script, build, twin, world, fires, defer, entered>>

\* this._transition(target, evt);
go_begin ==
    /\ At("go", "begin")
    /\ stack' = Rest \o <<Frame("_transition", "begin", Top.evt, Top.arg)>>
    /\ UNCHANGED <<machine, regs, log, call, threw, script, build, twin, world, fires, defer, entered>>


\* ------------------------------------------------- engine: _transition
\* if (!this.states[target]) return console.warn(...);
\* const from = this._state; if (from === target) return;
\* this._exit(from, evt);
\* !this.states[target]
UnknownStateNever(target) == FALSE
UnknownState(target) == target \notin StateNames

\* from === target
SameStateNever(from, target) == FALSE
SameState(from, target) == from = target

transition_begin_gated ==
    /\ At("_transition", "begin")
    /\ IF ~_run \/ UnknownState(Top.arg) \/ SameState(_state, Top.arg)
       THEN stack' = Rest
       ELSE stack' = Rest \o <<[Top EXCEPT !.pc = "enter", !.from = _state],
                               Frame("_exit", "begin", Top.evt, _state)>>
    /\ UNCHANGED <<machine, regs, log, call, threw, script, build, twin, world, fires, defer, entered>>

\* if (!this.states[target]) return console.warn(...);
\* const from = this._state; if (from === target) return;
\* this._exit(from, evt);

transition_begin ==
    /\ At("_transition", "begin")
    /\ IF UnknownState(Top.arg) \/ SameState(_state, Top.arg)
       THEN stack' = Rest
       ELSE stack' = Rest \o <<[Top EXCEPT !.pc = "enter", !.from = _state],
                               Frame("_exit", "begin", Top.evt, _state)>>
    /\ UNCHANGED <<machine, regs, log, call, threw, script, build, twin, world, fires, defer, entered>>

transition_enter_notified ==
    /\ At("_transition", "enter")
    /\ stack' = Rest \o <<[Top EXCEPT !.pc = "hooks"],
                          Frame("_enter", "begin", Top.evt, Top.arg),
                          CbFrame("cfgOnTransition", "config", Top.evt, Top.arg, Top.from, _token)>>
    /\ UNCHANGED <<machine, regs, log, call, threw, script, build, twin, world, fires, defer, entered>>

\* this._enter(target, evt);
transition_enter ==
    /\ At("_transition", "enter")
    /\ stack' = Rest \o <<[Top EXCEPT !.pc = "notify"],
                          Frame("_enter", "begin", Top.evt, Top.arg)>>
    /\ UNCHANGED <<machine, regs, log, call, threw, script, build, twin, world, fires, defer, entered>>

transition_notify_current ==
    /\ At("_transition", "notify")
    /\ IF _state # Top.arg
       THEN stack' = Rest
       ELSE stack' = Rest \o <<[Top EXCEPT !.pc = "hooks"],
                               CbFrame("cfgOnTransition", "config", Top.evt, Top.arg, Top.from, _token)>>
    /\ UNCHANGED <<machine, regs, log, call, threw, script, build, twin, world, fires, defer, entered>>

\* this.onTransition?.({ from, to: target, evt, ctx: this.context });
\* this._call('onTransition', { from, to: target, evt });
transition_notify ==
    /\ At("_transition", "notify")
    /\ IF HasCfgOnTransition
       THEN stack' = Rest \o <<[Top EXCEPT !.pc = "hooks"],
                               CbFrame("cfgOnTransition", "config", Top.evt, Top.arg, Top.from, _token)>>
       ELSE stack' = Rest \o <<CallFrame("onTransition", Top.evt, Top.arg, Top.from, 0)>>
    /\ UNCHANGED <<machine, regs, log, call, threw, script, build, twin, world, fires, defer, entered>>

transition_hooks ==
    /\ At("_transition", "hooks")
    /\ stack' = Rest \o <<CallFrame("onTransition", Top.evt, Top.arg, Top.from, 0)>>
    /\ UNCHANGED <<machine, regs, log, call, threw, script, build, twin, world, fires, defer, entered>>

\* ------------------------------------------------------ engine: _enter
\* this._token++
NextTokenTwice(t) == t + 2
NextToken(t) == t + 1

enter_begin_lazy ==
    /\ At("_enter", "begin")
    /\ stack' = Rest \o <<[Top EXCEPT !.pc = "callback"],
                          CallFrame("onEnter", Top.evt, Top.arg, NULL, NextToken(_token))>>
    /\ UNCHANGED <<machine, regs, log, call, threw, script, build, twin, world, fires, defer, entered>>

enter_begin_stale ==
    /\ At("_enter", "begin")
    /\ _state' = Top.arg
    /\ _token' = NextToken(_token)
    /\ entries' = IF captured # 0 THEN entries + 1 ELSE entries
    /\ stack' = Rest \o <<[Top EXCEPT !.pc = "callback"],
                          CallFrame("onEnter", Top.evt, Top.arg, NULL, _token)>>
    /\ timers' = {[t EXCEPT !.moved = TRUE] : t \in timers}
    /\ UNCHANGED <<_run, context, regs, log, call, threw, script, build, twin, host, plant, fires, captured, lastCheck>>
    /\ entered' = Top.arg

\* this._state = stateName; this._token++;
\* this._call('onEnter', { state: stateName, evt, token: this._token });
enter_begin ==
    /\ At("_enter", "begin")
    /\ _state' = Top.arg
    /\ _token' = NextToken(_token)
    /\ entries' = IF captured # 0 THEN entries + 1 ELSE entries
    /\ stack' = Rest \o <<[Top EXCEPT !.pc = "callback"],
                          CallFrame("onEnter", Top.evt, Top.arg, NULL, NextToken(_token))>>
    /\ timers' = {[t EXCEPT !.moved = TRUE] : t \in timers}
    /\ UNCHANGED <<_run, context, regs, log, call, threw, script, build, twin, host, plant, fires, captured, lastCheck>>
    /\ entered' = Top.arg

\* this.states[stateName]?.enter?.(this.context, evt, this._api(this._token));
enter_callback ==
    /\ At("_enter", "callback")
    /\ IF HasEnter(Top.arg)
       THEN stack' = Rest \o <<CbFrame("enter", Top.arg, Top.evt, Top.arg, NULL, _token)>>
       ELSE stack' = Rest
    /\ UNCHANGED <<machine, regs, log, call, threw, script, build, twin, world, fires, defer, entered>>

\* ------------------------------------------------------- engine: _exit
\* if (!stateName) return; this._call('onExit', { state: stateName, evt });
exit_begin ==
    /\ At("_exit", "begin")
    /\ IF Top.arg = NULL
       THEN stack' = Rest
       ELSE stack' = Rest \o <<[Top EXCEPT !.pc = "callback"],
                               CallFrame("onExit", Top.evt, Top.arg, NULL, 0)>>
    /\ entered' = IF Top.arg = NULL THEN entered ELSE NULL
    /\ UNCHANGED <<machine, regs, log, call, threw, script, build, twin, world, fires, defer>>

\* this.states[stateName]?.exit?.(this.context, evt, this._api());
exit_callback ==
    /\ At("_exit", "callback")
    /\ IF HasExit(Top.arg)
       THEN stack' = Rest \o <<CbFrame("exit", Top.arg, Top.evt, Top.arg, NULL, _token)>>
       ELSE stack' = Rest
    /\ UNCHANGED <<machine, regs, log, call, threw, script, build, twin, world, fires, defer, entered>>

\* ------------------------------------------------------- engine: _call
\* for (const a of this.adapters) (a as any)[hook]?.(arg);
NextAdapter(i) == i + 1

call_iter_break ==
    /\ At("_call", "iter")
    /\ IF Top.i > Len(Adapters) \/ ~HasHook(Adapters[Top.i], Top.hook)
       THEN stack' = Rest
       ELSE stack' = Rest \o
                   <<[Top EXCEPT !.i = NextAdapter(Top.i)],
                     CbFrame(Top.hook, Adapters[Top.i], Top.evt, Top.arg, Top.from, Top.tok)>>
    /\ UNCHANGED <<machine, regs, log, call, threw, script, build, twin, world, fires, defer, entered>>

call_iter_unordered ==
    /\ At("_call", "iter")
    /\ IF Top.i > Len(Adapters)
       THEN stack' = Rest
       ELSE \E j \in {Top.i, Len(Adapters)} :
              IF HasHook(Adapters[j], Top.hook)
              THEN stack' = Rest \o
                     <<[Top EXCEPT !.i = NextAdapter(j)],
                       CbFrame(Top.hook, Adapters[j], Top.evt, Top.arg, Top.from, Top.tok)>>
              ELSE stack' = Rest \o <<[Top EXCEPT !.i = NextAdapter(j)]>>
    /\ UNCHANGED <<machine, regs, log, call, threw, script, build, twin, world, fires, defer, entered>>

call_iter ==
    /\ At("_call", "iter")
    /\ IF Top.i > Len(Adapters)
       THEN stack' = Rest
       ELSE IF HasHook(Adapters[Top.i], Top.hook)
            THEN stack' = Rest \o
                   <<[Top EXCEPT !.i = NextAdapter(Top.i)],
                     CbFrame(Top.hook, Adapters[Top.i], Top.evt, Top.arg, Top.from, Top.tok)>>
            ELSE stack' = Rest \o <<[Top EXCEPT !.i = NextAdapter(Top.i)]>>
    /\ UNCHANGED <<machine, regs, log, call, threw, script, build, twin, world, fires, defer, entered>>

\* ----------------------------------------------------- the user's code
\* guard: (ctx) => ctx.score >= 1
GuardPasses(ctx) == ctx.score >= 1

\* actions and the tick callback write the shared context
RunAction(action, ctx) ==
    CASE action = "inc"   -> [ctx EXCEPT !.score = IF @ < MaxScore THEN @ + 1 ELSE @]
      [] action = "reset" -> [ctx EXCEPT !.score = 0]
      [] OTHER -> ctx

\* api.send / api.go (USM._api) and usm.stop / usm.start from a callback
ReentryFrame(do, arg) ==
    CASE do = "send"  -> Frame("send", "begin", arg, "-")
      [] do = "go"    -> Frame("go", "begin", "@GO", arg)
      [] do = "stop"  -> Frame("stop", "begin", arg, "-")
      [] OTHER        -> Frame("start", "begin", arg, "-")

\* An exception leaves every frame between the throwing callback and the
\* caller of the API: the engine has no try/catch.
UnwindCaught(stk) == SubSeq(stk, 1, Len(stk) - 1)
Unwind(stk) == <<>>

\* One callback runs.  An exception (thrown by the callback, or the
\* RangeError of unbounded recursion) is caught nowhere in the engine: it
\* unwinds the whole stack.
cb_run ==
    /\ At("cb", "run")
    /\ LET f == Top
           scripted == script.hook = f.hook /\ script.who = f.who /\ fires < script.max
           does == IF scripted THEN script.do ELSE "default"
           reenter == does \in {"send", "go", "stop", "start"}
           throws == does = "throw" \/ (reenter /\ NestDepth > MaxNest)
       IN /\ log' = Append(log, Entry(f))
          /\ fires' = IF scripted THEN fires + 1 ELSE fires
          /\ threw' = (threw \/ throws)
          /\ stack' = IF throws THEN Unwind(stack)
                      ELSE IF reenter
                           THEN Rest \o <<[f EXCEPT !.pc = "ret"], ReentryFrame(does, script.what)>>
                           ELSE Rest
          /\ retB' = IF does = "default" /\ f.hook = "guard" THEN GuardPasses(context) ELSE retB
          /\ retT' = IF does = "default" /\ f.hook = "resolver" THEN ResolverResult(f.rule) ELSE retT
          /\ context' = IF does = "default" /\ f.hook = "action" THEN RunAction(f.rule.action, context)
                        ELSE IF does = "default" /\ f.hook = "tick" THEN RunAction("inc", context)
                        ELSE context
          /\ captured' = IF does = "defer" /\ captured = 0 THEN f.tok ELSE captured
          /\ entries' = IF does = "defer" /\ captured = 0 THEN 0 ELSE entries
          /\ timers' = IF does \in {"after", "every"}
                        THEN timers \cup {Timer(script.what, does = "every")}
                        ELSE IF does = "default" /\ f.hook = "onStop" /\ f.who = TimeAdapter
                             THEN {}
                             ELSE timers
          /\ host' = IF f.hook = "onStart" /\ f.who = UiAdapter /\ ~throws
                      THEN [host EXCEPT !.bound = TRUE]
                      ELSE host
    /\ UNCHANGED <<_state, _run, _token, call, script, build, twin, lastCheck, plant, entered>>

\* the callback returns after its re-entrant call has returned
cb_return ==
    /\ At("cb", "ret")
    /\ stack' = Rest
    /\ UNCHANGED <<machine, regs, log, call, threw, script, build, twin, world, fires, defer, entered>>

\* The deferred continuation of an enter callback resumes between two API
\* calls: if (!api.isCurrent(token)) return;
Deferred ==
    /\ Idle
    /\ captured # 0
    /\ lastCheck' = [token |-> captured, current |-> isCurrent(captured), after |-> entries]
    /\ captured' = 0
    /\ entries' = 0
    /\ UNCHANGED <<machine, stack, regs, log, call, threw, script, build, twin, world, fires, entered>>

\* ------------------------------------------------------- specification
Next ==
    \/ constructor_check \/ constructor_adapters
    \/ CallStart \/ CallStop \/ CallSend \/ CallGo \/ CallTick
    \/ start_begin \/ start_enter
    \/ stop_begin \/ stop_exit \/ stop_flag
    \/ send_begin \/ send_resolved \/ send_guarded \/ send_transition
    \/ tick_begin \/ tick_hooks
    \/ go_begin
    \/ transition_begin \/ transition_enter \/ transition_notify \/ transition_hooks
    \/ enter_begin \/ enter_callback
    \/ exit_begin \/ exit_callback
    \/ call_iter
    \/ cb_run \/ cb_return
    \/ Deferred

Spec == Init /\ [][Next]_vars

\* ------------------------------------------- two machines, the same calls
\* A second machine built from the same configuration is in the state the
\* first was in before its last call (both having been driven by the same
\* calls so far) and is given that call as well: what the first machine
\* did is kept in `twin` and the call runs again from call.pre.
Again ==
    /\ Idle /\ twin.phase = "first" /\ call.op # "none"
    /\ twin' = [log |-> log, threw |-> threw, outcome |-> Snapshot, phase |-> "second"]
    /\ _state' = call.pre.state
    /\ _token' = call.pre.token
    /\ _run' = call.pre.run
    /\ context' = call.pre.ctx
    /\ stack' = <<Frame(call.op, "begin", call.evt, IF call.op = "go" THEN call.arg ELSE "-")>>
    /\ log' = <<>>
    /\ threw' = FALSE
    /\ fires' = 0
    /\ retT' = NoRule
    /\ retB' = FALSE
    /\ UNCHANGED <<call, script, build, world, defer, entered>>

\* both machines have returned: the next call is made on both
Proceed ==
    /\ Idle /\ twin.phase = "second"
    /\ twin' = [Alone EXCEPT !.phase = "first"]
    /\ call' = [call EXCEPT !.op = "none"]
    /\ UNCHANGED <<machine, stack, regs, log, threw, script, build, world, fires, defer, entered>>

InitTwin ==
    /\ _state = NULL /\ _run = FALSE /\ _token = 0 /\ context = [score |-> 0]
    /\ stack = <<>> /\ retT = NoRule /\ retB = FALSE /\ log = <<>> /\ threw = FALSE
    /\ call = [evt |-> "-", arg |-> "-", op |-> "none",
               pre |-> [state |-> NULL, token |-> 0, run |-> FALSE, ctx |-> [score |-> 0]]]
    /\ script \in Scripts
    /\ build = [initial |-> initial, pc |-> "check", made |-> <<>>]
    /\ fires = 0 /\ captured = 0 /\ entries = 0
    /\ lastCheck = [token |-> 0, current |-> FALSE, after |-> 0]
    /\ twin = [Alone EXCEPT !.phase = "first"]
    /\ timers = {} /\ host = NoHost /\ loop = NoLoop /\ pool = NoPool /\ entered = NULL /\ nav = NoNav

NextTwin ==
    \/ constructor_check \/ constructor_adapters
    \/ twin.phase = "first" /\ CallStart
    \/ twin.phase = "first" /\ CallStop
    \/ twin.phase = "first" /\ CallSend
    \/ twin.phase = "first" /\ CallGo
    \/ twin.phase = "first" /\ CallTick
    \/ twin.phase = "first" /\ Deferred
    \/ start_begin \/ start_enter
    \/ stop_begin \/ stop_exit \/ stop_flag
    \/ send_begin \/ send_resolved \/ send_guarded \/ send_transition
    \/ tick_begin \/ tick_hooks
    \/ go_begin
    \/ transition_begin \/ transition_enter \/ transition_notify \/ transition_hooks
    \/ enter_begin \/ enter_callback
    \/ exit_begin \/ exit_callback
    \/ call_iter
    \/ cb_run \/ cb_return
    \/ Again \/ Proceed

SpecTwin == InitTwin /\ [][NextTwin]_vars

\* ------------------------------------- the machine in its host: timers, DOM
\* The members of a USM instance (fields, accessors and public methods).
UsmMembers ==
    {"id", "initial", "states", "context", "adapters", "log", "onTransition",
     "state", "started", "token", "isCurrent", "start", "stop", "send", "tick", "go"}

\* A call from the host's event loop: a timer callback or a DOM listener
\* runs between two API calls and may call usm.send(evt).
HostCall(op, evt, sends) ==
    /\ Constructed
    /\ Idle
    /\ _token < MaxToken
    /\ stack' = IF sends THEN <<Frame("send", "begin", evt, "-")>> ELSE <<>>
    /\ log' = <<>>
    /\ threw' = FALSE
    /\ fires' = 0
    /\ retT' = NoRule
    /\ retB' = FALSE
    /\ call' = [evt |-> evt, arg |-> evt, op |-> op, pre |-> Snapshot]
    /\ UNCHANGED <<machine, script, build, twin, defer, plant, entered>>

timer_fire_unchecked ==
    \E t \in timers :
        /\ HostCall("timer", t.evt, TRUE)
        /\ timers' = IF t.every THEN timers ELSE timers \ {t}
        /\ host' = [host EXCEPT !.timer = t, !.sent = TRUE]

\* setTimeoutMs(() => { timers.delete(cancel);
\*     if (!usm.isCurrent(token)) return; usm.send(cbOrEvt); }, ms)
\* setInterval(() => { if (!usm.isCurrent(token)) return; usm.send(cbOrEvt); }, ms)
timer_fire ==
    \E t \in timers :
        /\ HostCall("timer", t.evt, isCurrent(t.token))
        /\ timers' = IF t.every THEN timers ELSE timers \ {t}
        /\ host' = [host EXCEPT !.timer = t, !.sent = isCurrent(t.token)]

\* click (or Enter/Space keydown) on an element with data-send = name,
\* bound by scan() in the ui adapter's onStart:
\* try { (usm as any).api?.send?.(name, payload); } catch {}
ui_click ==
    \E name \in EventTypes :
        /\ host.bound
        /\ HostCall("click", name, "api" \in UsmMembers)
        /\ UNCHANGED <<timers, host>>

InitHost ==
    /\ _state = NULL /\ _run = FALSE /\ _token = 0 /\ context = [score |-> 0]
    /\ stack = <<>> /\ retT = NoRule /\ retB = FALSE /\ log = <<>> /\ threw = FALSE
    /\ call = [evt |-> "-", arg |-> "-", op |-> "none",
               pre |-> [state |-> NULL, token |-> 0, run |-> FALSE, ctx |-> [score |-> 0]]]
    /\ script \in TimerScripts
    /\ build = [initial |-> initial, pc |-> "check", made |-> <<>>]
    /\ fires = 0 /\ captured = 0 /\ entries = 0
    /\ lastCheck = [token |-> 0, current |-> FALSE, after |-> 0]
    /\ twin = Alone
    /\ timers = {} /\ host = NoHost /\ loop = NoLoop /\ pool = NoPool /\ entered = NULL /\ nav = NoNav

NextHost ==
    \/ constructor_check \/ constructor_adapters
    \/ CallStart \/ CallStop \/ CallSend \/ CallGo \/ CallTick
    \/ start_begin \/ start_enter
    \/ stop_begin \/ stop_exit \/ stop_flag
    \/ send_begin \/ send_resolved \/ send_guarded \/ send_transition
    \/ tick_begin \/ tick_hooks
    \/ go_begin
    \/ transition_begin \/ transition_enter \/ transition_notify \/ transition_hooks
    \/ enter_begin \/ enter_callback
    \/ exit_begin \/ exit_callback
    \/ call_iter
    \/ cb_run
    \/ timer_fire \/ ui_click

SpecHost == InitHost /\ [][NextHost]_vars


\* ------------------------------------------ the time adapter's frame loop
\* The engine as constructed with no scripted callback, before any call.
EngineInit ==
    /\ _state = NULL /\ _run = FALSE /\ _token = 0 /\ context = [score |-> 0]
    /\ stack = <<>> /\ retT = NoRule /\ retB = FALSE /\ log = <<>> /\ threw = FALSE
    /\ call = [evt |-> "-", arg |-> "-", op |-> "none",
               pre |-> [state |-> NULL, token |-> 0, run |-> FALSE, ctx |-> [score |-> 0]]]
    /\ script = NoScript
    /\ build = [initial |-> initial, pc |-> "check", made |-> <<>>]
    /\ fires = 0 /\ captured = 0 /\ entries = 0
    /\ lastCheck = [token |-> 0, current |-> FALSE, after |-> 0]
    /\ twin = Alone
    /\ timers = {} /\ host = NoHost /\ entered = NULL /\ nav = NoNav

\* the largest accumulator a frame is started with
MaxAcc == MaxStep + MaxRaw

\* if (fixedStep && fixedStep > 0)
FixedMode(fs) == fs # 0 /\ fs > 0

\* let raw = Math.max(0, nowSec - last); if (raw > maxDelta) raw = maxDelta;
\* delta = raw * speed  (speed = 1)
Clamp(raw, clamp) == IF raw > clamp THEN clamp ELSE raw

\* while (acc >= fixedStep && steps < maxCatchUpSteps)
StepDue == loop.acc >= loop.fixedStep /\ loop.steps < loop.maxCatchUpSteps

\* Callbacks run between two frames and inside usm.tick.
Between == loop.pc \in {"idle", "ticked"}

\* scheduleNext(): if (hidden && !pauseOnHidden && sleepFPS > 0)
\*     sleepId = setTimeoutMs(() => frame(nowSeconds()), ms);
\* else rafId = raf((tMs) => frame(tMs / 1000));
scheduleNext(l) ==
    IF l.hidden /\ ~l.pauseOnHidden /\ l.sleepFPS > 0
    THEN [l EXCEPT !.sleepId = l.ids + 1, !.pending = @ \cup {l.ids + 1}, !.ids = @ + 1]
    ELSE [l EXCEPT !.rafId = l.ids + 1, !.pending = @ \cup {l.ids + 1}, !.ids = @ + 1]

\* clearScheduled():
\* if (sleepId != null) { clearTimeoutId(sleepId); sleepId = null; }
\* if (rafId) { caf(rafId); rafId = 0; }
clearScheduled(l) ==
    [l EXCEPT !.pending = @ \ {l.sleepId, l.rafId}, !.sleepId = 0, !.rafId = 0]

\* pause(): running = false; clearScheduled();
pause(l) == clearScheduled([l EXCEPT !.running = FALSE])

\* resume(): if (!running) { running = true; scheduleNext(); }
resume(l) == IF l.running THEN l ELSE scheduleNext([l EXCEPT !.running = TRUE])

\* handles are left to give out
Spare == loop.ids < MaxIds

\* ctx.time.start (and the adapter's onStart):
\* if (running) return; running = true; last = 0; scheduleNext();
time_start ==
    /\ Between /\ ~loop.running /\ Spare
    /\ loop' = scheduleNext([loop EXCEPT !.running = TRUE, !.last = 0])
    /\ UNCHANGED <<engine, timers, host, pool, nav>>

\* ctx.time.resume
time_resume ==
    /\ Between /\ ~loop.running /\ Spare
    /\ loop' = resume(loop)
    /\ UNCHANGED <<engine, timers, host, pool, nav>>

\* ctx.time.pause, and ctx.time.stop (the adapter's onStop), which clears
\* the timers in addition: running = false; clearScheduled();
time_pause ==
    /\ Between
    /\ loop' = pause(loop)
    /\ UNCHANGED <<engine, timers, host, pool, nav>>

\* visibilitychange: hidden = document.hidden;
\* if (pauseOnHidden) { if (hidden) pause(); else resume(); }
visChange ==
    \E h \in BOOLEAN :
        /\ loop.pc = "idle" /\ h # loop.hidden /\ Spare
        /\ loop' = IF ~loop.pauseOnHidden THEN [loop EXCEPT !.hidden = h]
                   ELSE IF h THEN pause([loop EXCEPT !.hidden = h])
                   ELSE resume([loop EXCEPT !.hidden = h])
        /\ UNCHANGED <<engine, timers, host, pool, nav>>

\* setFixedStep: (s) => { fixedStep = s; acc = 0; }
setFixedStep ==
    \E s \in 0..MaxStep :
        /\ Between
        /\ loop' = [loop EXCEPT !.fixedStep = s, !.acc = 0,
                                !.changed = @ \/ loop.pc = "ticked"]
        /\ UNCHANGED <<engine, timers, host, pool, nav>>

\* The host runs a pending frame callback, whose handle is pending no more.
Run(id) == [loop EXCEPT !.pending = @ \ {id}]

\* frame(): if (!running) return; scheduleNext();
\* if (!last) { last = nowSec; return; }
frame_first ==
    \E id \in loop.pending :
        /\ loop.pc = "idle" /\ (~loop.running \/ loop.last = 0) /\ Spare
        /\ loop' = IF ~loop.running THEN Run(id)
                   ELSE [scheduleNext(Run(id)) EXCEPT !.last = 1]
        /\ UNCHANGED <<engine, timers, host, pool, nav>>

\* scheduleNext(); last = nowSec; delta = raw * speed; acc += delta; steps = 0
frame_begin ==
    \E id \in loop.pending, raw \in 0..MaxRaw :
        /\ loop.pc = "idle" /\ loop.running /\ loop.last # 0 /\ Spare
        /\ FixedMode(loop.fixedStep)
        /\ loop.acc + Clamp(raw, loop.maxDelta) <= MaxAcc
        /\ loop' = [scheduleNext(Run(id)) EXCEPT
                                !.pc = "loop", !.last = 1,
                                !.acc = @ + Clamp(raw, loop.maxDelta),
                                !.delta = Clamp(raw, loop.maxDelta), !.steps = 0,
                                !.dts = <<>>, !.was = loop.fixedStep,
                                !.changed = FALSE, !.aborted = FALSE, !.cold = FALSE]
        /\ UNCHANGED <<engine, timers, host, pool, nav>>

\* scheduleNext(); ...
\* } else { usm.tick(delta); for (const fn of frameListeners) fn(delta); }
frame_variable ==
    \E id \in loop.pending, raw \in 0..MaxRaw :
        /\ loop.pc = "idle" /\ loop.running /\ loop.last # 0 /\ Spare
        /\ ~FixedMode(loop.fixedStep)
        /\ loop' = [scheduleNext(Run(id)) EXCEPT
                                !.last = 1, !.delta = Clamp(raw, loop.maxDelta),
                                !.dts = <<Clamp(raw, loop.maxDelta)>>,
                                !.was = loop.fixedStep,
                                !.changed = FALSE, !.aborted = FALSE, !.cold = FALSE]
        /\ UNCHANGED <<engine, timers, host, pool, nav>>

frame_tick_delta ==
    /\ loop.pc = "loop" /\ StepDue
    /\ loop' = [loop EXCEPT !.pc = "ticked", !.dts = Append(@, loop.delta),
                            !.cold = @ \/ ~loop.running]
    /\ UNCHANGED <<engine, timers, host, pool, nav>>

\* usm.tick(fixedStep);
frame_tick ==
    /\ loop.pc = "loop" /\ StepDue
    /\ loop' = [loop EXCEPT !.pc = "ticked", !.dts = Append(@, loop.fixedStep),
                            !.cold = @ \/ ~loop.running]
    /\ UNCHANGED <<engine, timers, host, pool, nav>>

\* a tick callback or hook throws: the exception leaves tick() and frame()
frame_throw ==
    /\ loop.pc = "ticked"
    /\ loop' = [loop EXCEPT !.pc = "idle", !.aborted = TRUE]
    /\ UNCHANGED <<engine, timers, host, pool, nav>>

\* for (const fn of frameListeners) fn(fixedStep); steps++; acc -= fixedStep;
frame_advance ==
    /\ loop.pc = "ticked"
    /\ loop' = [loop EXCEPT !.pc = "loop", !.steps = @ + 1,
                            !.acc = @ - loop.fixedStep]
    /\ UNCHANGED <<engine, timers, host, pool, nav>>

frame_end_carry ==
    /\ loop.pc = "loop" /\ ~StepDue
    /\ loop' = [loop EXCEPT !.pc = "idle"]
    /\ UNCHANGED <<engine, timers, host, pool, nav>>

\* if (steps >= maxCatchUpSteps) acc = 0;
frame_end ==
    /\ loop.pc = "loop" /\ ~StepDue
    /\ loop' = [loop EXCEPT !.pc = "idle",
                            !.acc = IF loop.steps >= loop.maxCatchUpSteps THEN 0 ELSE @]
    /\ UNCHANGED <<engine, timers, host, pool, nav>>

\* timeAdapter({ fixedStep, maxCatchUpSteps, maxDelta })
InitFrame ==
    /\ EngineInit
    /\ loop \in {[Loop(fs, cap, clamp) EXCEPT !.pauseOnHidden = p, !.sleepFPS = f] :
                   fs \in 0..MaxStep, cap \in 0..MaxCatchUp,
                   clamp \in {MaxRaw - 1, MaxRaw + 1}, p \in BOOLEAN, f \in {0, 5}}
    /\ pool = NoPool /\ nav = NoNav

NextFrame ==
    \/ time_start \/ time_resume \/ time_pause \/ visChange \/ setFixedStep
    \/ frame_first \/ frame_begin \/ frame_variable
    \/ frame_tick \/ frame_throw \/ frame_advance \/ frame_end

SpecFrame == InitFrame /\ [][NextFrame]_vars


\* --------------------------------------------- the loader adapter's pool
\* new Array(Math.min(concurrency, total))
WorkersAll(c, total) == total
Workers(c, total) == IF c < total THEN c ELSE total

\* a worker() call: awaiting loadItem of an item, its load settled (ok: it
\* fulfilled) and the continuation not yet run, or returned / rejected
Worker(state, item, ok) == [state |-> state, item |-> item, ok |-> ok]

\* loads started and not settled
InFlight == Cardinality({w \in DOMAIN pool.workers : pool.workers[w].state = "await"})

\* no worker of the previous load() is still running
Quiet == \A w \in DOMAIN pool.workers : pool.workers[w].state \in {"end", "rejected"}

\* const list = toList(manifest); let done = 0; const total = list.length;
\* const q = list.slice();
\* const workers = new Array(Math.min(concurrency, total)).fill(0).map(worker);
\* each worker() runs at once up to its first await:
\*   while (q.length) { const it = q.shift()!; ... await loadItem(...)
load_begin ==
    \E n \in 0..MaxItems :
        /\ Quiet
        /\ LET k == Workers(pool.concurrency, n)
               taken == IF k < n THEN k ELSE n
           IN pool' = [pool EXCEPT
                  !.pc = "loading", !.total = n,
                  !.q = [i \in 1..(n - taken) |-> taken + i],
                  !.workers = [w \in 1..k |-> IF w <= n THEN Worker("await", w, TRUE)
                                                        ELSE Worker("end", 0, TRUE)],
                  !.done = 0,
                  !.started = [i \in 1..taken |-> i],
                  !.progress = <<>>]
        /\ UNCHANGED <<engine, timers, host, loop, nav>>

\* the promise of loadItem(it.name, it.url, it.type) fulfils or rejects
item_settle ==
    \E w \in DOMAIN pool.workers, ok \in BOOLEAN :
        /\ pool.workers[w].state = "await"
        /\ pool' = [pool EXCEPT !.workers[w] = Worker("settled", @.item, ok)]
        /\ UNCHANGED <<engine, timers, host, loop, nav>>

\* } catch (e) { onError?.(it.name, e); throw e; }
\* finally { done++; onProgress?.(done, total, it.name); }
\* then the next turn of while (q.length), or the worker's promise settles
worker_resume ==
    \E w \in DOMAIN pool.workers :
        /\ pool.workers[w].state = "settled"
        /\ LET more == pool.workers[w].ok /\ pool.q # <<>>
           IN pool' = [pool EXCEPT
                  !.q = IF more THEN Tail(@) ELSE @,
                  !.workers[w] = IF more THEN Worker("await", Head(pool.q), TRUE)
                                 ELSE IF @.ok THEN Worker("end", @.item, TRUE)
                                 ELSE Worker("rejected", @.item, FALSE),
                  !.done = @ + 1,
                  !.started = IF more THEN Append(@, Head(pool.q)) ELSE @,
                  !.progress = Append(@, pool.done + 1)]
        /\ UNCHANGED <<engine, timers, host, loop, nav>>

\* await Promise.all(workers); return assets;
load_settle ==
    /\ pool.pc = "loading"
    /\ \/ \E w \in DOMAIN pool.workers : pool.workers[w].state = "rejected"
       \/ \A w \in DOMAIN pool.workers : pool.workers[w].state = "end"
    /\ pool' = [pool EXCEPT !.pc =
                   IF \E w \in DOMAIN pool.workers : pool.workers[w].state = "rejected"
                   THEN "rejected" ELSE "resolved"]
    /\ UNCHANGED <<engine, timers, host, loop, nav>>

\* loaderAdapter({ concurrency })
InitLoader ==
    /\ EngineInit
    /\ loop = NoLoop
    /\ pool \in {Pool(c) : c \in 0..MaxConcurrency}
    /\ nav = NoNav

NextLoader == load_begin \/ item_settle \/ worker_resume \/ load_settle

SpecLoader == InitLoader /\ [][NextLoader]_vars


\* ------------------------------------ the ui pages / ui scenes adapters
\* The pages are named after the machine's states: the adapters' onEnter
\* hook is onEnter({ state }) { if (byName.has(state)) goto(state); }
PageNames == StateNames

\* a goto() call: the page it leads to and the page that was current when
\* it was called
Goto(to, from, state) == [from |-> from, state |-> state, to |-> to]

\* gotos awaiting their transition
Awaiting == {i \in DOMAIN nav.gotos : nav.gotos[i].state = "await"}
\* every goto() made has returned
Settled == \A i \in DOMAIN nav.gotos : nav.gotos[i].state = "done"

\* onStart() { init(); ... }: collect(); if (start) showImmediate(start);
\* showImmediate: display '' for the page named, 'none' for the others;
\* current = name
pages_init ==
    \E p \in PageNames :
        /\ nav.pc = "off"
        /\ nav' = [nav EXCEPT !.pc = "on", !.current = p, !.shown = {p}, !.latest = p]
        /\ UNCHANGED <<engine, timers, host, loop, pool>>

\* goto(name): const toEl = byName.get(name); if (!toEl) return;
\* const fromEl = current ? byName.get(current) : null;
\* if (current === name) return; toEl.style.display = '';
\* await transitions.play(...) / await fadeLocal(fromEl, toEl)
goto_begin ==
    \E name \in PageNames \cup {"nowhere"} :
        /\ nav.pc = "on" /\ Len(nav.gotos) < MaxGotos
        /\ nav' = IF name \notin PageNames THEN nav
                  ELSE IF nav.current = name THEN [nav EXCEPT !.latest = name]
                  ELSE [nav EXCEPT
                          !.shown = @ \cup {name},
                          !.gotos = Append(@, Goto(name, nav.current, "await")),
                          !.latest = name,
                          !.overlap = @ \/ Awaiting # {}]
        /\ UNCHANGED <<engine, timers, host, loop, pool>>

\* the transition of a goto ends: the element of the page it left gets
\* style.display = 'none' (onComplete / transitionend of fromEl), the
\* promise resolves
transition_end ==
    \E i \in Awaiting :
        /\ nav' = [nav EXCEPT !.shown = @ \ {nav.gotos[i].from},
                              !.gotos[i].state = "ended"]
        /\ UNCHANGED <<engine, timers, host, loop, pool>>

\* after the await: current = name; setActive(current); removePrehide();
goto_resume ==
    \E i \in DOMAIN nav.gotos :
        /\ nav.gotos[i].state = "ended"
        /\ nav' = [nav EXCEPT !.current = nav.gotos[i].to,
                              !.gotos[i].state = "done"]
        /\ UNCHANGED <<engine, timers, host, loop, pool>>

InitPages ==
    /\ EngineInit
    /\ loop = NoLoop /\ pool = NoPool
    /\ nav = NoNav

NextPages == pages_init \/ goto_begin \/ transition_end \/ goto_resume

SpecPages == InitPages /\ [][NextPages]_vars

\* =================================================================== claims
\* The API call in progress (or just finished) and what it has done so far.
InCall(op) == call.op = op
Returned == Idle /\ call.op # "none" /\ ~threw
Untouched == _state = call.pre.state /\ _token = call.pre.token /\ context = call.pre.ctx
Fired(names) == {k \in 1..Len(log) : log[k].hook \in names}
TransitionCallbacks ==
    {"exit", "enter", "onExit", "onEnter", "onTransition", "cfgOnTransition"}
\* the target a rule of the `on` table names, whatever its form
TargetOf(s, e) == OnTable[s][e].target
Routed(s, e) == s \in StateNames /\ e \in DOMAIN OnTable[s]

\* ---- C1 --------------------------------------------------------------
\* C1: every step changes the token by 0 or by exactly +1, and +1 only in
\* the step that performs a state entry; an API call whose callbacks did
\* not call back into the machine leaves the token at its old value plus
\* one if it performed an entry (start() of a stopped machine, send/go
\* that changed the state) and at its old value otherwise (tick, stop,
\* unknown event, failed guard, unknown target, no-op transition).
C1_EntryStep == At("_enter", "begin") /\ _state' = Top.arg
C1_Performed ==
    \/ InCall("start") /\ ~call.pre.run
    \/ call.op \in {"send", "go"} /\ _state # call.pre.state
C1_Settled ==
    (Returned /\ fires = 0) =>
        _token = call.pre.token + (IF C1_Performed THEN 1 ELSE 0)
C1_TokenSteps ==
    [][ /\ _token' = _token \/ (_token' = _token + 1 /\ C1_EntryStep)
        /\ C1_Settled' ]_vars

\* start(), send('START'), send('STOP') on a fresh machine: token 1, 2, 3.
C1_Witness ==
    /\ Returned /\ InCall("send") /\ call.arg = "STOP"
    /\ call.pre.state = "play" /\ call.pre.token = 2
    /\ _state = "menu" /\ _token = 3

\* ---- C2 --------------------------------------------------------------
\* C2: a token captured in an enter callback is current exactly as long as
\* no later state entry was performed; the deferred continuation that
\* resumes after one or more later entries (also entries of the same
\* state again) sees isCurrent(captured) = FALSE.
C2_StaleToken ==
    /\ captured # 0 => (isCurrent(captured) <=> entries = 0)
    /\ lastCheck.token # 0 => (lastCheck.current <=> lastCheck.after = 0)

\* captured in menu, left menu, re-entered menu, then the continuation ran
C2_Witness ==
    /\ lastCheck.token = 1 /\ lastCheck.after = 2 /\ ~lastCheck.current
    /\ _state = "menu" /\ _token = 3 /\ Idle

\* ---- C3 --------------------------------------------------------------
\* C3: during and after a go(target) with target = current state, and a
\* send whose rule names the current state, the token is unchanged and no
\* exit/enter callback, onExit/onEnter/onTransition hook or config
\* onTransition callback has been invoked.
C3_SameTarget ==
    \/ InCall("go") /\ call.arg = call.pre.state
    \/ InCall("send") /\ Routed(call.pre.state, call.arg)
         /\ TargetOf(call.pre.state, call.arg) = call.pre.state
C3_NoOp ==
    C3_SameTarget =>
        /\ _token = call.pre.token
        /\ _state = call.pre.state
        /\ Fired(TransitionCallbacks \cup HookKinds) = {}

\* go('play') a second time has returned
C3_Witness ==
    /\ Returned /\ InCall("go") /\ call.arg = "play" /\ call.pre.state = "play"
    /\ call.pre.token = 2

\* ---- C4 --------------------------------------------------------------
\* C4: during and after a send whose rule has a guard that is false for
\* the context, state, token and context are those before the send, and no
\* callback other than the resolver and the guard itself has been invoked
\* (no action, no exit/enter, no hook).
C4_GuardFalse ==
    /\ InCall("send") /\ Routed(call.pre.state, call.arg)
    /\ OnTable[call.pre.state][call.arg].guard
    /\ call.pre.ctx.score < 1
C4_GuardGates ==
    C4_GuardFalse =>
        /\ Untouched
        /\ \A k \in 1..Len(log) : log[k].hook \in {"resolver", "guard"}

\* send('WIN') in play with score 0 has returned, the guard was asked
C4_Witness ==
    /\ Returned /\ InCall("send") /\ call.arg = "WIN" /\ call.pre.state = "play"
    /\ call.pre.ctx.score = 0 /\ Len(log) = 1 /\ log[1].hook = "guard"

\* ---- C5 --------------------------------------------------------------
\* C5: a go to a name that is no key of states, and a send whose rule names
\* such a target, never throws, leaves state, token and context as they
\* were and invokes no exit/enter callback and no adapter hook or
\* onTransition callback.
C5_UnknownTarget ==
    \/ InCall("go") /\ call.arg \notin StateNames
    \/ InCall("send") /\ Routed(call.pre.state, call.arg)
         /\ OnTable[call.pre.state][call.arg].kind \in {"str", "obj", "fnobj"}
         /\ TargetOf(call.pre.state, call.arg) \notin StateNames
C5_UnknownTargetSafe ==
    C5_UnknownTarget =>
        /\ ~threw /\ Untouched /\ _run = call.pre.run
        /\ Fired(TransitionCallbacks \cup HookKinds) = {}
        /\ InCall("go") => log = <<>>

\* go('nowhere') on a running machine has returned
C5_Witness ==
    /\ Returned /\ InCall("go") /\ call.arg = "nowhere"
    /\ call.pre.run /\ call.pre.state = "play"

\* ---- C6 --------------------------------------------------------------
\* C6: during and after a send of an event type the current state's `on`
\* table has no entry for, nothing was thrown, state, token and context
\* are those before the send, and no callback of any kind has been invoked.
C6_NoEntry == InCall("send") /\ ~Routed(call.pre.state, call.arg)
C6_UnknownEventSilent ==
    C6_NoEntry => ~threw /\ Untouched /\ log = <<>> /\ _run = call.pre.run

\* send('UNKNOWN') while in menu has returned
C6_Witness ==
    /\ Returned /\ InCall("send") /\ call.arg = "UNKNOWN"
    /\ call.pre.state = "menu" /\ call.pre.run


\* ---- C7 --------------------------------------------------------------
\* The adapters that define hook h, in registration order, and the
\* adapters the log shows to have been called with hook h, in call order.
Expected(h) == SelectSeq(Adapters, LAMBDA a : HasHook(a, h))
Called(h) ==
    LET sel == SelectSeq(log, LAMBDA e : e.hook = h)
    IN [k \in 1..Len(sel) |-> sel[k].who]
IndexOf(a) == CHOOSE j \in 1..Len(Adapters) : Adapters[j] = a
SameEvent(x, y) ==
    /\ x.hook = y.hook /\ x.evt = y.evt /\ x.from = y.from
    /\ x.state = y.state /\ x.token = y.token
IsPrefix(p, q) == Len(p) <= Len(q) /\ \A k \in 1..Len(p) : p[k] = q[k]

\* C7: whenever a hook of an adapter is invoked, every adapter registered
\* before it that defines the hook was invoked earlier for the same
\* lifecycle event, and once the API call has returned every adapter
\* registered after it that defines the hook was invoked later for it; an
\* adapter is never asked for a hook it lacks.  In a call without
\* re-entrancy each kind of hook is delivered to exactly the adapters
\* defining it, in registration order.
C7_AdapterOrder ==
    /\ \A k \in 1..Len(log) : log[k].hook \in HookKinds =>
          /\ HasHook(log[k].who, log[k].hook)
          /\ \A j \in 1..(IndexOf(log[k].who) - 1) :
                HasHook(Adapters[j], log[k].hook) =>
                    \E m \in 1..(k - 1) :
                        SameEvent(log[m], log[k]) /\ log[m].who = Adapters[j]
          /\ Returned =>
                \A j \in (IndexOf(log[k].who) + 1)..Len(Adapters) :
                    HasHook(Adapters[j], log[k].hook) =>
                        \E m \in (k + 1)..Len(log) :
                            SameEvent(log[m], log[k]) /\ log[m].who = Adapters[j]
    /\ fires = 0 =>
          \A h \in HookKinds :
              /\ IsPrefix(Called(h), Expected(h))
              /\ Returned => Called(h) \in {<<>>, Expected(h)}

\* stop() has returned: onStop went to A, B, C and onExit, which B lacks,
\* to A and then C
C7_Witness ==
    /\ Returned /\ InCall("stop") /\ fires = 0
    /\ Called("onStop") = <<"A", "B", "C">>
    /\ Called("onExit") = <<"A", "C">>

\* ---- C8 --------------------------------------------------------------
\* C8: in every state a caller or a callback can observe (between two API
\* calls, and at the start of every callback), started implies that state
\* is a key of the states map.
C8_StartedInKnownState ==
    (Idle \/ At("cb", "run")) /\ _run => _state \in StateNames

\* ---- C9 --------------------------------------------------------------
\* C9: start() on a running machine invokes nothing and changes nothing.
\* start() on a machine that is not running has, when it returns, invoked
\* first onStart on the adapters defining it, in order, each seeing
\* started = TRUE, and after them the enter sequence of the initial state
\* (onEnter hooks and the state's enter callback) with the event given to
\* start and the new token; the machine is running in the initial state.
C9_EnterPart(k) ==
    /\ log[k].hook \in {"onEnter", "enter"}
    /\ log[k].state = initial /\ log[k].evt = call.evt
    /\ log[k].token = call.pre.token + 1
    /\ log[k].run /\ log[k].cur = initial
C9_Start ==
    (InCall("start") /\ fires = 0) =>
        IF call.pre.run
        THEN log = <<>> /\ Untouched /\ _run
        ELSE Returned =>
            LET n == Len(Expected("onStart")) IN
            /\ _run /\ _state = initial /\ _token = call.pre.token + 1
            /\ Len(log) = n + Len(Expected("onEnter")) + (IF HasEnter(initial) THEN 1 ELSE 0)
            /\ \A k \in 1..n :
                  /\ log[k].hook = "onStart" /\ log[k].who = Expected("onStart")[k]
                  /\ log[k].run /\ log[k].live = call.pre.token
            /\ \A k \in (n + 1)..Len(log) : C9_EnterPart(k)
            /\ Called("onEnter") = Expected("onEnter")
            /\ Cardinality(Fired({"enter"})) = (IF HasEnter(initial) THEN 1 ELSE 0)

\* start({type:'BOOT'}) of a stopped machine has returned
C9_Witness ==
    /\ Returned /\ InCall("start") /\ call.evt = "BOOT" /\ fires = 0
    /\ ~call.pre.run /\ call.pre.state = "play" /\ Len(log) = 6

\* ---- C10 -------------------------------------------------------------
\* C10: stop() on a machine that is not running invokes nothing and
\* changes nothing.  stop() on a running machine keeps state and token,
\* every callback it invokes sees started = TRUE, and when it returns it
\* has invoked onStop on the adapters in order, after them the exit
\* sequence of the current state (onExit hooks and the state's exit
\* callback) with the event given to stop, and started is FALSE.
C10_ExitPart(k) ==
    /\ log[k].hook \in {"onExit", "exit"}
    /\ log[k].state = call.pre.state /\ log[k].evt = call.evt
C10_Stop ==
    (InCall("stop") /\ fires = 0) =>
        IF ~call.pre.run
        THEN log = <<>> /\ Untouched /\ ~_run
        ELSE /\ _state = call.pre.state /\ _token = call.pre.token
             /\ \A k \in 1..Len(log) : log[k].run
             /\ Returned =>
                LET n == Len(Expected("onStop"))
                    s == call.pre.state
                IN /\ ~_run
                   /\ \A k \in 1..n :
                         log[k].hook = "onStop" /\ log[k].who = Expected("onStop")[k]
                   /\ \A k \in (n + 1)..Len(log) : C10_ExitPart(k)
                   /\ Called("onExit") = (IF s = NULL THEN <<>> ELSE Expected("onExit"))
                   /\ Cardinality(Fired({"exit"})) = (IF s # NULL /\ HasExit(s) THEN 1 ELSE 0)

\* stop({type:'QUIT'}) of a machine running in play has returned
C10_Witness ==
    /\ Returned /\ InCall("stop") /\ call.evt = "QUIT" /\ fires = 0
    /\ call.pre.run /\ call.pre.state = "play" /\ Len(log) = 6
    /\ _state = "play" /\ ~_run

\* ---- C11 -------------------------------------------------------------
\* how often the hook h of adapter a was invoked by the call in progress
Times(h, a) == Cardinality({k \in 1..Len(log) : log[k].hook = h /\ log[k].who = a})

\* C11: a stop() of a running machine invokes every adapter's onStop at
\* most once, each invocation sees started = TRUE, and when the stop() has
\* returned every adapter defining onStop was invoked exactly once; this
\* also when an onStop/onExit hook or the exit callback running during the
\* stop() calls stop() again.
C11_OnStopOnce ==
    (InCall("stop") /\ call.pre.run) =>
        /\ \A k \in 1..Len(log) : log[k].hook = "onStop" => log[k].run
        /\ \A j \in 1..Len(Adapters) :
              /\ Times("onStop", Adapters[j]) <= 1
              /\ (Returned /\ HasHook(Adapters[j], "onStop")) =>
                    Times("onStop", Adapters[j]) = 1

\* ---- C12 -------------------------------------------------------------
\* The phase of a transition a callback belongs to.
Phase(h) ==
    CASE h \in {"onExit", "exit"} -> 1
      [] h \in {"onEnter", "enter"} -> 2
      [] h = "cfgOnTransition" -> 3
      [] h = "onTransition" -> 4
      [] OTHER -> 0
\* the adapters whose hook h is among the first k callbacks of the call
CalledBy(k, h) ==
    LET sel == SelectSeq(SubSeq(log, 1, k), LAMBDA e : e.hook = h)
    IN [m \in 1..Len(sel) |-> sel[m].who]
\* the exit sequence of `from` and the enter sequence of `to` are complete
\* within the first k callbacks
BothComplete(k, from, to) ==
    /\ CalledBy(k, "onExit") = (IF from = NULL THEN <<>> ELSE Expected("onExit"))
    /\ Len(CalledBy(k, "exit")) = (IF from # NULL /\ HasExit(from) THEN 1 ELSE 0)
    /\ CalledBy(k, "onEnter") = Expected("onEnter")
    /\ Len(CalledBy(k, "enter")) = (IF HasEnter(to) THEN 1 ELSE 0)

\* C12: in a send or go whose callbacks do not call back into the machine,
\* the callbacks come in the order exit sequence, enter sequence, config
\* onTransition, adapters' onTransition; the config callback and the hooks
\* are given from = the state before the call, to = the state entered and
\* the event, and run when both sequences are complete and the machine is
\* in the new state; a call that changed the state has, on return, invoked
\* the config callback once and onTransition on every adapter defining it.
\* start() invokes neither the config onTransition nor an onTransition hook.
C12_NotifyLast ==
    /\ (call.op \in {"send", "go"} /\ fires = 0) =>
          /\ \A j, k \in 1..Len(log) : j < k => Phase(log[j].hook) <= Phase(log[k].hook)
          /\ \A k \in 1..Len(log) : Phase(log[k].hook) \in {3, 4} =>
                /\ log[k].from = call.pre.state /\ log[k].state = log[k].cur
                /\ log[k].state # log[k].from /\ log[k].evt = call.evt
                /\ log[k].live = call.pre.token + 1
                /\ BothComplete(k - 1, log[k].from, log[k].state)
          /\ (Returned /\ _state # call.pre.state) =>
                /\ Cardinality(Fired({"cfgOnTransition"})) = (IF HasCfgOnTransition THEN 1 ELSE 0)
                /\ Called("onTransition") = Expected("onTransition")
                /\ BothComplete(Len(log), call.pre.state, _state)
    /\ (InCall("start") /\ fires = 0) =>
          Fired({"cfgOnTransition", "onTransition"}) = {}

\* send('START') in menu has returned: 3 exit, 4 enter callbacks, then the
\* config onTransition and the three hooks
C12_Witness ==
    /\ Returned /\ InCall("send") /\ call.arg = "START" /\ fires = 0
    /\ call.pre.state = "menu" /\ _state = "play" /\ Len(log) = 11
    /\ log[8].hook = "cfgOnTransition" /\ log[8].from = "menu" /\ log[8].state = "play"

\* ---- C13 -------------------------------------------------------------
\* C13: when an onExit hook is invoked for the exit of a state that has an
\* exit callback, that exit callback has already run for this exit (in a
\* transition and in stop()).
C13_ExitBeforeOnExit ==
    fires = 0 =>
        \A k \in 1..Len(log) :
            (log[k].hook = "onExit" /\ HasExit(log[k].state)) =>
                \E j \in 1..(k - 1) :
                    log[j].hook = "exit" /\ log[j].who = log[k].state

\* ---- C14 -------------------------------------------------------------
\* C14: the enter callback of a state always starts with an API whose token
\* is the machine's token (isCurrent(api.token) holds).  In a start, send
\* or go whose callbacks do not call back into the machine, every onEnter
\* hook and the enter callback are given the token of before the call plus
\* one and see it as the machine's token with the machine in the entered
\* state; no onEnter hook comes after the enter callback, and the enter
\* callback runs when every adapter defining onEnter has been called.
C14_EnterSequence ==
    /\ (At("cb", "run") /\ Top.hook = "enter") => isCurrent(Top.tok)
    /\ (call.op \in {"start", "send", "go"} /\ fires = 0) =>
          \A k \in 1..Len(log) : log[k].hook \in {"onEnter", "enter"} =>
              /\ log[k].token = call.pre.token + 1
              /\ log[k].live = log[k].token
              /\ log[k].cur = log[k].state
              /\ log[k].hook = "onEnter" => CalledBy(k - 1, "enter") = <<>>
              /\ log[k].hook = "enter" =>
                    CalledBy(k - 1, "onEnter") = Expected("onEnter")

\* go('play') from over at token 2: play's enter callback starts with
\* api.token = 3 after onEnter went to A, B and C with token 3
C14_Witness ==
    /\ At("cb", "run") /\ Top.hook = "enter" /\ Top.who = "play" /\ Top.tok = 3
    /\ InCall("go") /\ call.pre.state = "over" /\ call.pre.token = 2 /\ fires = 0
    /\ CalledBy(Len(log), "onEnter") = <<"A", "B", "C">>
    /\ \A k \in 1..Len(log) : log[k].hook = "onEnter" => log[k].token = 3

\* ---- C15 -------------------------------------------------------------
\* C15: when an onEnter hook is invoked for the entry of a state that has
\* an enter callback, that enter callback has already run for this entry.
C15_EnterBeforeOnEnter ==
    fires = 0 =>
        \A k \in 1..Len(log) :
            (log[k].hook = "onEnter" /\ HasEnter(log[k].state)) =>
                \E j \in 1..(k - 1) :
                    log[j].hook = "enter" /\ log[j].who = log[k].state

\* ---- C16 -------------------------------------------------------------
\* C16: in a send whose callbacks do not call back into the machine, the
\* rule's action starts with the machine in the state the send found it
\* in and with the token of before the send, after nothing but the rule's
\* resolver and guard (no onExit hook, no exit callback, no entry), and
\* only if the rule has no guard or the guard held; a send that changed
\* the state through a rule with an action has run the action once.
C16_ActionFirst ==
    (InCall("send") /\ fires = 0) =>
        /\ \A k \in 1..Len(log) : log[k].hook = "action" =>
              /\ log[k].cur = call.pre.state /\ log[k].live = call.pre.token
              /\ log[k].ctx = call.pre.ctx
              /\ \A j \in 1..(k - 1) : log[j].hook \in {"resolver", "guard"}
              /\ OnTable[call.pre.state][call.arg].guard => GuardPasses(call.pre.ctx)
        /\ (Returned /\ _state # call.pre.state
              /\ OnTable[call.pre.state][call.arg].action # "none") =>
                 Cardinality(Fired({"action"})) = 1

\* send('WIN') in play with score 1 has returned: guard, action (score
\* reset), then the exit of play and the entry of over
C16_Witness ==
    /\ Returned /\ InCall("send") /\ call.arg = "WIN" /\ fires = 0
    /\ call.pre.state = "play" /\ call.pre.ctx.score = 1
    /\ _state = "over" /\ context.score = 0
    /\ log[1].hook = "guard" /\ log[2].hook = "action" /\ log[3].hook = "onExit"

\* ---- C17 -------------------------------------------------------------
\* C17: a send of an event whose rule is a resolver function returning a
\* transition (a bare state name or a record) to a known state, with no
\* guard or a guard that holds, has on return moved the machine to that
\* state, as the same value written directly in the `on` table does.
C17_Resolved ==
    /\ Returned /\ InCall("send") /\ fires = 0
    /\ Routed(call.pre.state, call.arg)
    /\ OnTable[call.pre.state][call.arg].kind \in {"fnobj", "fnstr"}
    /\ TargetOf(call.pre.state, call.arg) \in StateNames
    /\ OnTable[call.pre.state][call.arg].guard => GuardPasses(call.pre.ctx)
C17_ResolverLikeStatic ==
    C17_Resolved => _state = TargetOf(call.pre.state, call.arg)

\* ---- C18 -------------------------------------------------------------
\* the current state has a tick callback
Ticks(s) == s \in StateNames /\ HasTick(s)

\* C18: a tick() invokes nothing but the current state's tick callback and
\* the onTick hooks; the tick callback, if the state has one, comes first
\* and sees the context of before the call, every onTick hook sees the
\* context as the tick callback left it, and state, token and started stay
\* what they were; on return every adapter defining onTick was called.
C18_TickOrder ==
    (InCall("tick") /\ fires = 0) =>
        /\ _state = call.pre.state /\ _token = call.pre.token /\ _run = call.pre.run
        /\ \A k \in 1..Len(log) :
              /\ log[k].hook \in {"tick", "onTick"}
              /\ log[k].hook = "tick" =>
                    k = 1 /\ log[k].who = call.pre.state /\ log[k].ctx = call.pre.ctx
              /\ log[k].hook = "onTick" =>
                    IF Ticks(call.pre.state)
                    THEN log[1].hook = "tick" /\ log[k].ctx = RunAction("inc", call.pre.ctx)
                    ELSE log[k].ctx = call.pre.ctx
        /\ Returned =>
              /\ Called("onTick") = Expected("onTick")
              /\ Cardinality(Fired({"tick"})) = (IF Ticks(call.pre.state) THEN 1 ELSE 0)

\* tick() in play with score 0 has returned: play's tick, then onTick on A
\* and C, both seeing score 1
C18_Witness ==
    /\ Returned /\ InCall("tick") /\ call.pre.state = "play" /\ call.pre.ctx.score = 0
    /\ Len(log) = 3 /\ log[1].hook = "tick"
    /\ log[2].hook = "onTick" /\ log[2].ctx.score = 1 /\ log[3].ctx.score = 1

\* ---- C19 -------------------------------------------------------------
\* C19: a go(target) to a known state other than the current one, whose
\* callbacks do not call back into the machine, invokes no resolver, guard
\* or action, whatever rules the current state has, and on return the
\* machine is in target with the token one higher and the context
\* untouched, after the complete exit and enter sequences, the config
\* onTransition callback and the onTransition hooks.
C19_Go ==
    InCall("go") /\ call.arg \in StateNames /\ call.arg # call.pre.state /\ fires = 0
C19_GoDirect ==
    C19_Go =>
        /\ Fired({"resolver", "guard", "action"}) = {}
        /\ ~threw
        /\ Returned =>
              /\ _state = call.arg /\ _token = call.pre.token + 1
              /\ context = call.pre.ctx /\ _run = call.pre.run
              /\ BothComplete(Len(log), call.pre.state, call.arg)
              /\ Cardinality(Fired({"cfgOnTransition"})) = (IF HasCfgOnTransition THEN 1 ELSE 0)
              /\ Called("onTransition") = Expected("onTransition")

\* go('over') from play with score 0 has returned: play's only rules to
\* over are WIN, whose guard is false, and SKIP
C19_Witness ==
    /\ Returned /\ C19_Go /\ call.arg = "over" /\ call.pre.state = "play"
    /\ call.pre.ctx.score = 0 /\ ~GuardPasses(call.pre.ctx)
    /\ _state = "over" /\ Len(log) = 10

\* go('play') from over, which has no rule leading to play, has returned
C19_WitnessNoRule ==
    /\ Returned /\ C19_Go /\ call.arg = "play" /\ call.pre.state = "over"
    /\ \A e \in DOMAIN OnTable["over"] : TargetOf("over", e) # "play"
    /\ _state = "play"

\* ---- C20 -------------------------------------------------------------
\* C20: a constructor given an initial state that `states` lacks throws
\* with no adapter factory invoked, and no machine exists to be called.
\* Otherwise the factories are invoked in list order, each at most once,
\* all of them before the constructor returns and so before any API call,
\* and a constructed machine has invoked each exactly once, whatever
\* start/stop/send/go/tick calls have been made since.
C20_Construction ==
    /\ IsPrefix(build.made, Adapters)
    /\ build.pc = "threw" <=> (MissingInitial(build.initial) /\ build.pc # "check")
    /\ MissingInitial(build.initial) => build.made = <<>>
    /\ Constructed => build.made = Adapters
    /\ ~Constructed => Idle /\ call.op = "none" /\ _state = NULL /\ ~_run /\ _token = 0

\* new USM({initial:'nowhere', ...}) has thrown
C20_Witness ==
    /\ build.pc = "threw" /\ build.initial = "nowhere" /\ build.made = <<>>
    /\ call.op = "none"

\* a machine that was constructed, started, moved to play and stopped
C20_WitnessValid ==
    /\ Constructed /\ build.made = <<"A", "B", "C">>
    /\ Returned /\ InCall("stop") /\ call.pre.state = "play" /\ ~_run

\* ---- C21 -------------------------------------------------------------
\* the callback the script makes throw
Thrower(e) == script.do = "throw" /\ e.hook = script.hook /\ e.who = script.who

\* C21: when a callback throws (an enter, exit or tick callback, a guard,
\* an action or an adapter hook), the API call that invoked it is over at
\* once: the exception has reached the caller, the throwing callback is
\* the last one the call invoked (no later adapter's hook, no later phase
\* of the transition) and the machine is left exactly as the throwing
\* callback saw it.
C21_Propagates ==
    /\ (log # <<>> /\ Thrower(log[Len(log)])) => threw
    /\ (threw /\ script.do = "throw") =>
          /\ Idle
          /\ Thrower(log[Len(log)])
          /\ \A k \in 1..(Len(log) - 1) : ~Thrower(log[k])
          /\ _state = log[Len(log)].cur /\ _token = log[Len(log)].live
          /\ _run = log[Len(log)].run /\ context = log[Len(log)].ctx

\* send('START') in menu with adapter B's onEnter throwing: play was
\* entered, A and B were told, C, play's enter callback and onTransition
\* were not
C21_Witness ==
    /\ threw /\ Idle /\ InCall("send") /\ call.arg = "START" /\ call.pre.state = "menu"
    /\ script.hook = "onEnter" /\ script.who = "B" /\ script.do = "throw"
    /\ Called("onEnter") = <<"A", "B">>
    /\ Fired({"enter", "cfgOnTransition", "onTransition"}) = {}
    /\ _state = "play" /\ _token = call.pre.token + 1

C23_BeforeFirstStart ==
    /\ call.op \in {"send", "go", "tick", "stop"}
    /\ call.pre.token = 0 /\ ~call.pre.run /\ script.hook # "onStart"
C23_NullUntilStart ==
    /\ C23_BeforeFirstStart => _state = NULL
    /\ _token > 0 => _state # NULL
    /\ (InCall("start") /\ Returned) => _state # NULL

\* ---- C24 -------------------------------------------------------------
\* C24: after a send whose rule (string, record with an action, resolver)
\* names the current state as target, the context is the context of
\* before the send.
C24_NoOpKeepsContext ==
    (Returned /\ InCall("send") /\ C3_SameTarget) => context = call.pre.ctx

\* ---- C25 -------------------------------------------------------------
\* C25: a send or go that starts a transition out of a state whose exit
\* callback calls api.send(E), E being routed by that state to a third
\* state, never ends in the RangeError of unbounded recursion: it returns
\* normally.
C25_ExitSends ==
    /\ script.hook = "exit" /\ script.do = "send"
    /\ call.op \in {"send", "go"} /\ call.pre.state = script.who
    /\ Routed(script.who, script.what)
    /\ TargetOf(script.who, script.what) \in StateNames \ {script.who}
C25_ExitReentryEnds ==
    C25_ExitSends => ~threw

\* ---- C26 -------------------------------------------------------------
\* C26: when a timer of ctx.time.after or ctx.time.every fires, it sends
\* its event exactly if the machine's token is the token the timer was
\* created with, which is the case exactly if no state was entered since
\* the timer was created; after an entry, also one that re-entered the
\* state the timer was created in, the firing does nothing.
C26_TokenSafe ==
    /\ \A t \in timers : isCurrent(t.token) <=> ~t.moved
    /\ call.op = "timer" =>
          /\ host.sent <=> (host.timer.token = call.pre.token)
          /\ host.sent <=> ~host.timer.moved
          /\ ~host.sent => (log = <<>> /\ Idle /\ Untouched)

\* the timer created in play's enter callback at token 1 fires in play at
\* token 3, after play was left and entered again: nothing is sent
C26_Witness ==
    /\ call.op = "timer" /\ ~host.sent /\ host.timer.token = 1 /\ ~host.timer.every
    /\ script.hook = "enter" /\ script.who = "play"
    /\ call.pre.state = "play" /\ call.pre.token = 3

\* the same timer fires while play was not left: STOP is sent, menu entered
C26_WitnessSent ==
    /\ call.op = "timer" /\ host.sent /\ host.timer.token = 2
    /\ call.pre.state = "play" /\ Returned /\ _state = "menu"

\* ---- C27 -------------------------------------------------------------
\* C27: when the handler of a click on an element with data-send = NAME
\* has returned, on a started machine whose current state routes NAME to
\* another known state, the machine is in that state.
C27_Click ==
    /\ call.op = "click" /\ Returned /\ call.pre.run
    /\ Routed(call.pre.state, call.arg)
    /\ OnTable[call.pre.state][call.arg].kind = "str"
    /\ TargetOf(call.pre.state, call.arg) \in StateNames \ {call.pre.state}
C27_ClickSends ==
    C27_Click => _state = TargetOf(call.pre.state, call.arg)

\* ---- C28 -------------------------------------------------------------
\* C28: a timer that was created while the machine was started (also by a
\* callback or hook running during stop()) and fires when stop() has
\* returned and the machine is not started sends nothing.
C28_StoppedSilent ==
    (call.op = "timer" /\ host.timer.run /\ ~call.pre.run) => ~host.sent

\* C29: time adapter in fixed-step mode (fixedStep > 0): one frame calls
\* usm.tick at most maxCatchUpSteps times, each call with dt exactly
\* fixedStep, the accumulator left by a frame that ran to its end is
\* strictly less than fixedStep, and when the cap was reached the remaining
\* accumulated time is dropped (the accumulator is 0).
C29_FixedStep ==
    FixedMode(loop.was) =>
        /\ Len(loop.dts) <= loop.maxCatchUpSteps
        /\ ~loop.changed => \A i \in DOMAIN loop.dts : loop.dts[i] = loop.was
        /\ (loop.pc = "idle" /\ FixedMode(loop.fixedStep) /\ ~loop.aborted)
               => loop.acc < loop.fixedStep
        /\ (loop.pc = "idle" /\ Len(loop.dts) >= loop.maxCatchUpSteps /\ ~loop.aborted)
               => loop.acc = 0

\* a frame of 3 quanta with fixedStep 1 and a cap of 2 steps has ticked twice
\* and dropped the third quantum
C29_Witness ==
    /\ loop.pc = "idle" /\ ~loop.aborted /\ ~loop.changed
    /\ loop.fixedStep = 1 /\ loop.was = 1 /\ loop.maxCatchUpSteps = MaxCatchUp
    /\ loop.delta > MaxCatchUp
    /\ loop.dts = [i \in 1..MaxCatchUp |-> 1]
    /\ loop.acc = 0

\* a frame that did not reach the cap keeps the remainder below fixedStep
C29_WitnessRemainder ==
    /\ loop.pc = "idle" /\ ~loop.aborted /\ ~loop.changed
    /\ loop.fixedStep = MaxStep /\ loop.was = MaxStep
    /\ Len(loop.dts) = 1 /\ loop.maxCatchUpSteps > 1
    /\ loop.acc = MaxStep - 1

\* C30: during ctx.loader.load(manifest) at most `concurrency` item loads
\* are in flight at any moment, each manifest item is started at most once,
\* and the `done` values given to onProgress are 1, 2, 3, ... (one more per
\* finished item) and never exceed `total`.
C30_Pool ==
    /\ InFlight <= pool.concurrency
    /\ \A i, j \in DOMAIN pool.started : i # j => pool.started[i] # pool.started[j]
    /\ pool.progress = [i \in 1..Len(pool.progress) |-> i]
    /\ \A i \in DOMAIN pool.progress : pool.progress[i] <= pool.total

\* 2 workers for a manifest of more items: both busy, an item finished and
\* reported, items still queued
C30_Witness ==
    /\ pool.concurrency = 2 /\ pool.total = MaxItems
    /\ InFlight = 2
    /\ pool.progress # <<>> /\ pool.q # <<>>

\* every item of the manifest was loaded and reported, the last as total
C30_WitnessAll ==
    /\ pool.pc = "resolved" /\ pool.total = MaxItems /\ pool.concurrency = 2
    /\ Len(pool.started) = MaxItems
    /\ pool.progress[Len(pool.progress)] = pool.total

\* ---- C31 -------------------------------------------------------------
\* the onTransition notifications (config callback and adapter hooks) of
\* the API call in progress, in delivery order
Notices == SelectSeq(log, LAMBDA e : e.hook \in {"cfgOnTransition", "onTransition"})
\* play's enter callback calls api.go('over')
EnterGoes == script = Script("enter", "play", "go", "over", 1)

\* C31: when, during a transition A->B, B's enter callback calls api.go and
\* thereby causes B->C, the config onTransition callback and the adapters'
\* onTransition hooks are delivered for B->C first and for A->B afterwards,
\* the machine's state is C when the A->B notifications are delivered, and
\* the machine ends in C with the token increased by 2.
C31_Reentrant ==
    (EnterGoes /\ Returned /\ fires = 1) =>
        /\ _state = "over" /\ _token = call.pre.token + 2
        /\ Len(Notices) = 2 * (1 + Len(Expected("onTransition")))
        /\ \A k \in 1..Len(Notices) :
              IF 2 * k <= Len(Notices)
              THEN Notices[k].from = "play" /\ Notices[k].state = "over"
              ELSE /\ Notices[k].from = call.pre.state /\ Notices[k].state = "play"
                   /\ Notices[k].cur = "over"

\* send('START') in menu has returned: play was entered and left for over
C31_Witness ==
    /\ EnterGoes /\ Returned /\ fires = 1
    /\ InCall("send") /\ call.arg = "START" /\ call.pre.state = "menu"
    /\ Notices[1].hook = "cfgOnTransition" /\ Notices[1].state = "over"
    /\ Notices[Len(Notices)].state = "play" /\ Notices[Len(Notices)].cur = "over"
    /\ _token = call.pre.token + 2

\* ---- C32 -------------------------------------------------------------
\* C32: enter and exit sequences alternate: an enter sequence begins only
\* when the state entered before it (if any) has had its exit sequence, and
\* an exit sequence of a state begins only when that state was entered and
\* not exited since (no double exit).
C32_Alternate ==
    /\ At("_enter", "begin") => entered = NULL
    /\ (At("_exit", "begin") /\ Top.arg # NULL) => entered = Top.arg

\* ---- C33 -------------------------------------------------------------
\* the state a send/go made in state s leads to when nothing vetoes it:
\* the target of go, or of a rule that is a bare name, a record or a
\* resolver returning a record
Leads(s) ==
    IF InCall("go") THEN call.arg
    ELSE IF InCall("send") /\ Routed(s, call.arg)
              /\ OnTable[s][call.arg].kind \in {"str", "obj", "fnobj"}
              /\ (OnTable[s][call.arg].guard => GuardPasses(call.pre.ctx))
         THEN TargetOf(s, call.arg)
         ELSE NULL
\* a send or go that names a known state other than the current one, made
\* on a machine that was stopped (started = false, state not null)
C33_WhileStopped ==
    /\ call.op \in {"send", "go"} /\ fires = 0
    /\ ~call.pre.run /\ call.pre.state # NULL
    /\ Leads(call.pre.state) \in StateNames \ {call.pre.state}

\* C33: send and go are not gated on the running flag: after stop(), a send
\* with a matching rule or a go to a different known state still runs the
\* guard and the action, the exit and enter sequences, the config
\* onTransition callback and the onTransition hooks, changes the state and
\* increments the token, while started stays false.
C33_NotGated ==
    (C33_WhileStopped /\ Returned) =>
        /\ _state = Leads(call.pre.state) /\ _token = call.pre.token + 1
        /\ ~_run
        /\ BothComplete(Len(log), call.pre.state, _state)
        /\ Cardinality(Fired({"cfgOnTransition"})) = 1
        /\ Called("onTransition") = Expected("onTransition")
        /\ InCall("send") =>
              /\ OnTable[call.pre.state][call.arg].guard =>
                    Cardinality(Fired({"guard"})) = 1
              /\ OnTable[call.pre.state][call.arg].action # "none" =>
                    Cardinality(Fired({"action"})) = 1

\* start(), send('START'), tick (score 1), stop(), then send('WIN') has
\* returned: guard and action ran and the stopped machine moved to over
C33_Witness ==
    /\ C33_WhileStopped /\ Returned /\ InCall("send") /\ call.arg = "WIN"
    /\ call.pre.state = "play" /\ _state = "over" /\ ~_run
    /\ Cardinality(Fired({"guard"})) = 1 /\ Cardinality(Fired({"action"})) = 1

\* stop() in menu, then go('play') has returned
C33_WitnessGo ==
    /\ C33_WhileStopped /\ Returned /\ InCall("go") /\ call.arg = "play"
    /\ call.pre.state = "menu" /\ _state = "play" /\ ~_run

\* ---- C34 -------------------------------------------------------------
\* a start() of a machine that is not running and has held a state before
\* (it was stopped), whose callbacks do not call back into the machine
C34_Restart ==
    /\ InCall("start") /\ fires = 0
    /\ ~call.pre.run /\ call.pre.state # NULL

\* C34: start() after stop() enters the configured initial state whatever
\* state the machine held when it was stopped, invokes the onStart and
\* onEnter hooks again but no onExit hook, exit callback or onTransition
\* notification, and continues the token from its previous value: no token
\* captured before the restart is current afterwards.
C34_RestartEnters ==
    C34_Restart =>
        /\ Fired({"onExit", "exit", "onTransition", "cfgOnTransition"}) = {}
        /\ Returned =>
              /\ _state = initial /\ _run
              /\ _token = call.pre.token + 1
              /\ \A t \in 0..call.pre.token : ~isCurrent(t)
              /\ Called("onStart") = Expected("onStart")
              /\ Called("onEnter") = Expected("onEnter")
              /\ \A k \in 1..Len(log) :
                    log[k].hook \in {"onEnter", "enter"} =>
                        log[k].state = initial /\ log[k].token = call.pre.token + 1

\* stopped in over with token 3, start() has returned in menu with token 4
C34_Witness ==
    /\ C34_Restart /\ Returned
    /\ call.pre.state = "over" /\ call.pre.token = 3
    /\ _state = "menu" /\ _token = 4

\* ---- C35 -------------------------------------------------------------
\* the start() in progress was ended by an onStart hook that threw
C35_OnStartThrew ==
    /\ InCall("start") /\ threw /\ ~call.pre.run
    /\ log # <<>> /\ log[Len(log)].hook = "onStart" /\ Thrower(log[Len(log)])

C35_WitnessThrew ==
    /\ C35_OnStartThrew /\ Idle /\ call.pre.state = NULL /\ call.pre.token = 0
    /\ _run /\ _state = NULL /\ _token = 0

\* ---- C36 -------------------------------------------------------------
\* the script makes an enter callback or an onEnter hook throw
EntryThrows == script.do = "throw" /\ script.hook \in {"enter", "onEnter"}
\* the send/go in progress was ended by it
C36_EntryThrew ==
    /\ call.op \in {"send", "go"} /\ threw /\ EntryThrows
    /\ log # <<>> /\ Thrower(log[Len(log)])

\* C36: when the target state's enter callback or an onEnter hook throws
\* during a transition A->B, the machine is left in B with the token
\* already incremented and A's exit sequence run, and neither the config
\* onTransition callback nor an onTransition hook was invoked; a following
\* send is routed by B's `on` table.
C36_LeftInTarget ==
    /\ C36_EntryThrew =>
          /\ Idle
          /\ _state = Leads(call.pre.state) /\ _state = log[Len(log)].state
          /\ _token = call.pre.token + 1
          /\ CalledBy(Len(log), "onExit") =
                (IF call.pre.state = NULL THEN <<>> ELSE Expected("onExit"))
          /\ Len(CalledBy(Len(log), "exit")) =
                (IF call.pre.state # NULL /\ HasExit(call.pre.state) THEN 1 ELSE 0)
          /\ Fired({"cfgOnTransition", "onTransition"}) = {}
    /\ (EntryThrows /\ InCall("send") /\ Idle /\ call.pre.state # NULL
          /\ (script.hook = "enter" => call.pre.state = script.who)) =>
          _state = (IF Leads(call.pre.state) \in StateNames
                    THEN Leads(call.pre.state) ELSE call.pre.state)

\* send('START') in menu threw in play's enter callback
C36_Witness ==
    /\ C36_EntryThrew /\ InCall("send") /\ call.arg = "START"
    /\ script.hook = "enter" /\ script.who = "play"
    /\ call.pre.state = "menu" /\ _state = "play" /\ _token = call.pre.token + 1
    /\ Cardinality(Fired({"exit"})) = 1

\* play was entered by an enter callback that threw; send('STOP'), a rule
\* of play, has returned in menu
C36_WitnessNext ==
    /\ Returned /\ InCall("send") /\ call.arg = "STOP"
    /\ script = Script("enter", "play", "throw", "-", 1)
    /\ call.pre.state = "play" /\ _state = "menu"

\* ---- C37 -------------------------------------------------------------
\* C37: under any interleaving of ctx.time.start/stop/pause/resume,
\* visibility changes and frame callbacks, at most one frame callback is
\* pending at any time, no frame callback is pending while the loop is not
\* running, and usm.tick is never called while the loop is not running.
C37_OneFrame ==
    /\ Cardinality(loop.pending) <= 1
    /\ ~loop.running => loop.pending = {}
    /\ ~loop.cold

\* the two parts of C37 about the pending frame callbacks
C37_Pending ==
    /\ Cardinality(loop.pending) <= 1
    /\ ~loop.running => loop.pending = {}

\* ---- C38 -------------------------------------------------------------
\* C38: when goto(P2) was called while an earlier goto(P1) was awaiting its
\* transition, then after both calls have settled exactly one page is
\* displayed, current names that page, and it is the target of the most
\* recent goto call.
C38_OnePage ==
    (nav.overlap /\ Settled) =>
        /\ Cardinality(nav.shown) = 1
        /\ nav.shown = {nav.current}
        /\ nav.current = nav.latest

====
